---- MODULE Spec2Model ----
(***************************************************************************)
(* Task orchestration of the MikroTik central manager: the cron evaluator, *)
(* the scheduler tick (dispatch_scheduled_tasks), the celery queue and the *)
(* dispatcher (execute_task) with its per-device handler invocations.      *)
(*                                                                         *)
(* Time is a number of seconds since Monday 2024-01-01 00:00:00 UTC.       *)
(* A NULL column / Python None is the value None.                          *)
(***************************************************************************)
EXTENDS Integers, Sequences, FiniteSets, TLC

None == -1
\* a NULL text column
Null == "NULL"

(***************************************************************************)
(* Bounds of the model.                                                    *)
(***************************************************************************)
\* number of environment events (clock advances and manual triggers,
\* execute_task.delay(id, "manual")) explored after the start instant
MaxEvents == 2

(***************************************************************************)
(* Calendar: datetime fields of a time stamp (datetime.minute, .hour,      *)
(* .day, .month, .weekday()), for the year 2024.                           *)
(***************************************************************************)
DaysInMonth == <<31, 29, 31, 30, 31, 30, 31, 31, 30, 31, 30, 31>>

RECURSIVE MonthDay(_, _)
\* <<month, day>> of the 0-based day of the year d, scanning from month m
MonthDay(d, m) ==
    IF m >= 12 \/ d < DaysInMonth[m] THEN <<m, d + 1>>
    ELSE MonthDay(d - DaysInMonth[m], m + 1)

Minute(dt) == (dt \div 60) % 60
Hour(dt) == (dt \div 3600) % 24
Day(dt) == MonthDay((dt \div 86400) % 366, 1)[2]
Month(dt) == MonthDay((dt \div 86400) % 366, 1)[1]
\* Python's datetime.weekday(): Monday is 0
Weekday(dt) == (dt \div 86400) % 7

(***************************************************************************)
(* Cron expressions.  An expression is the sequence of its whitespace-     *)
(* separated fields; a field is the sequence of its comma-separated parts; *)
(* a part is "*" (star), "*/a" (step), "a-b" (range), an integer a (int)   *)
(* or text that int() rejects (bad).                                       *)
(***************************************************************************)
Star == [kind |-> "star", a |-> 0, b |-> 0]
StepOf(n) == [kind |-> "step", a |-> n, b |-> 0]
RangeOf(lo, hi) == [kind |-> "range", a |-> lo, b |-> hi]
Single(n) == [kind |-> "int", a |-> n, b |-> 0]
Bad == [kind |-> "bad", a |-> 0, b |-> 0]

\* value == "*"
IsStarField(value) == Len(value) = 1 /\ value[1].kind = "star"

\* a part on which int() or range() raises ValueError
PartRaises(part) ==
    \/ part.kind = "bad"
    \/ part.kind = "star"
    \/ part.kind = "step" /\ part.a = 0

\* the values one part contributes to `values`
PartValues(part, minimum, maximum) ==
    CASE part.kind = "step" ->
            IF part.a > 0
            THEN {v \in minimum..maximum : (v - minimum) % part.a = 0}
            ELSE {}
      [] part.kind = "range" -> part.a .. part.b
      [] OTHER -> {part.a}

\* _parse_cron_field raises
ParseRaises(value) ==
    ~IsStarField(value) /\ \E i \in 1..Len(value) : PartRaises(value[i])

\* _parse_cron_field that keeps the values outside minimum..maximum
_parse_cron_field_NoClamp(value, minimum, maximum) ==
    IF IsStarField(value) THEN minimum..maximum
    ELSE UNION {PartValues(value[i], minimum, maximum) : i \in 1..Len(value)}

\* the resolved values of a field (the members of the sorted list returned)
_parse_cron_field(value, minimum, maximum) ==
    IF IsStarField(value) THEN minimum..maximum
    ELSE {v \in UNION {PartValues(value[i], minimum, maximum) : i \in 1..Len(value)} :
            minimum <= v /\ v <= maximum}

\* cron_matches raises ValueError: not five fields, or a field does not parse
CronRaises(expression) ==
    \/ Len(expression) # 5
    \/ \E i \in 1..Len(expression) : ParseRaises(expression[i])

\* cron_matches that does not test the weekday
cron_matches_IgnoresWeekday(dt, expression) ==
    /\ Minute(dt) \in _parse_cron_field(expression[1], 0, 59)
    /\ Hour(dt) \in _parse_cron_field(expression[2], 0, 23)
    /\ Day(dt) \in _parse_cron_field(expression[3], 1, 31)
    /\ Month(dt) \in _parse_cron_field(expression[4], 1, 12)

cron_matches(dt, expression) ==
    /\ Minute(dt) \in _parse_cron_field(expression[1], 0, 59)
    /\ Hour(dt) \in _parse_cron_field(expression[2], 0, 23)
    /\ Day(dt) \in _parse_cron_field(expression[3], 1, 31)
    /\ Month(dt) \in _parse_cron_field(expression[4], 1, 12)
    /\ Weekday(dt) \in _parse_cron_field(expression[5], 0, 6)

LookaheadMinutes == 1440
ScanBlock == 60

RECURSIVE ScanMinutes(_, _, _)
\* the loop of compute_next_run over `left` iterations (at most ScanBlock of
\* them): the first matching check_time, or None
ScanMinutes(check_time, expression, left) ==
    IF left = 0 THEN None
    ELSE IF cron_matches(check_time, expression) THEN check_time
    ELSE ScanMinutes(check_time + 60, expression, left - 1)

RECURSIVE ScanLoop(_, _, _)
\* the loop of compute_next_run, taken ScanBlock iterations at a time
ScanLoop(check_time, expression, left) ==
    IF left = 0 THEN None
    ELSE LET n == IF left < ScanBlock THEN left ELSE ScanBlock
             hit == ScanMinutes(check_time, expression, n)
         IN IF hit # None THEN hit
            ELSE ScanLoop(check_time + 60 * n, expression, left - n)

\* compute_next_run whose scan starts at now instead of one minute later
compute_next_run_FromNow(now_, expression, lookahead_minutes) ==
    LET hit == ScanLoop(now_, expression, lookahead_minutes)
    IN IF hit # None THEN hit ELSE now_ + 60 * lookahead_minutes

\* compute_next_run whose fallback is check_time as the loop left it
compute_next_run_FallbackCheckTime(now_, expression, lookahead_minutes) ==
    LET hit == ScanLoop(now_ + 60, expression, lookahead_minutes)
    IN IF hit # None THEN hit ELSE now_ + 60 * (lookahead_minutes + 1)

compute_next_run(now_, expression, lookahead_minutes) ==
    LET hit == ScanLoop(now_ + 60, expression, lookahead_minutes)
    IN IF hit # None THEN hit ELSE now_ + 60 * lookahead_minutes

(***************************************************************************)
(* Devices and groups (device_manager.models.Device.group_id).             *)
(***************************************************************************)
DeviceIds == {1, 2, 3}
\* devices 1 and 2 are in group 1, device 3 is in no group, group 2 is empty
DeviceGroupId == <<1, 1, None>>

DeviceTarget(d) == [target_type |-> "device", device_id |-> d, group_id |-> None]
GroupTarget(g) == [target_type |-> "group", device_id |-> None, group_id |-> g]

RECURSIVE SortedSeq(_)
\* sorted(set(...)): the members of a set of integers in ascending order
SortedSeq(S) ==
    IF S = {} THEN <<>>
    ELSE LET m == CHOOSE v \in S : \A u \in S : v <= u
         IN <<m>> \o SortedSeq(S \ {m})

\* what one target appends to device_ids
TargetDeviceIds(target) ==
    IF target.target_type = "device" /\ target.device_id # None
    THEN <<target.device_id>>
    ELSE IF target.target_type = "group" /\ target.group_id # None
    THEN SortedSeq({d \in DeviceIds : DeviceGroupId[d] = target.group_id})
    ELSE <<>>

RECURSIVE CollectFrom(_, _)
\* the list device_ids after the loop over task.targets from position i
CollectFrom(targets, i) ==
    IF i > Len(targets) THEN <<>>
    ELSE TargetDeviceIds(targets[i]) \o CollectFrom(targets, i + 1)

SeqRange(s) == {s[i] : i \in 1..Len(s)}

\* _collect_target_device_ids returning device_ids as collected
_collect_target_device_ids_Raw(task) == CollectFrom(task.targets, 1)

_collect_target_device_ids(task) ==
    SortedSeq(SeqRange(CollectFrom(task.targets, 1)))

(***************************************************************************)
(* Tasks (task_manager.models.Task).  A row has the mapped attributes of   *)
(* the model; `targets` is the relationship.                               *)
(***************************************************************************)
TaskIds == {1, 2}
\* an id with no row in the tasks table
AbsentTaskId == 3

EveryMinute == <<<<Star>>, <<Star>>, <<Star>>, <<Star>>, <<Star>>>>
\* "*/2 * 1,31 1-2 2-3"
EvenMinutes ==
    <<<<StepOf(2)>>, <<Star>>, <<Single(1), Single(31)>>, <<RangeOf(1, 2)>>, <<RangeOf(2, 3)>>>>
\* "0,5 0 1 * *"
FirstOfMonth ==
    <<<<Single(0), Single(5)>>, <<Single(0)>>, <<Single(1)>>, <<Star>>, <<Star>>>>
\* "* * * *": four fields
FourFields == <<<<Star>>, <<Star>>, <<Star>>, <<Star>>>>

TaskRow(type, expr, enabled, targets) ==
    [task_type |-> type, schedule_expression |-> expr, is_enabled |-> enabled,
     last_run_at |-> None, next_run_at |-> None, targets |-> targets]

RebootAll ==
    TaskRow("reboot", EveryMinute, TRUE,
            <<DeviceTarget(3), GroupTarget(1), DeviceTarget(3)>>)
CheckGroup ==
    TaskRow("check_availability", EvenMinutes, TRUE,
            <<GroupTarget(1), DeviceTarget(2)>>)
RebootEmptyGroup == TaskRow("reboot", FirstOfMonth, TRUE, <<GroupTarget(2)>>)
BackupNoDevice ==
    TaskRow("backup_creation", FourFields, TRUE, <<DeviceTarget(None)>>)
DisabledReboot ==
    TaskRow("reboot", EveryMinute, FALSE, <<GroupTarget(1), DeviceTarget(2)>>)

\* the contents of the tasks table the model starts from
TaskTables ==
    { <<RebootAll, DisabledReboot>>,
      <<CheckGroup, RebootEmptyGroup>>,
      <<BackupNoDevice, CheckGroup>>,
      <<RebootEmptyGroup, BackupNoDevice>> }

(***************************************************************************)
(* The per-device handler.  An outcome is what the call does: it returns   *)
(* or it raises `error`.                                                   *)
(***************************************************************************)
Returns == [raised |-> FALSE, error |-> ""]
Raises(message) == [raised |-> TRUE, error |-> message]

\* task.payload: the Task model maps no attribute of that name, so reading
\* it raises AttributeError
_load_task_payload(task) ==
    IF "payload" \notin DOMAIN task
    THEN Raises("'Task' object has no attribute 'payload'")
    ELSE IF task.payload = "invalid" THEN Raises("Invalid task payload JSON")
    ELSE Returns

SupportedTaskTypes ==
    {"check_availability", "execute_script", "script_execution",
     "firewall_list_update", "backup_creation", "reboot", "reset"}

\* remote: the outcome of the kind's service call against the device
_execute_task_for_device(task, device_id, remote) ==
    LET payload == _load_task_payload(task)
    IN IF payload.raised THEN payload
       ELSE IF task.task_type \in SupportedTaskTypes THEN remote
       ELSE Raises("Unsupported task type")

RemoteOutcomes == {Returns, Raises("SSH connection required")}

(***************************************************************************)
(* State.                                                                  *)
(***************************************************************************)
StartTime == 30 * 86400 + 23 * 3600 + 59 * 60
ClockSteps == {60, 120}
Workers == {1, 2}

VARIABLES
    now,            \* the wall clock, datetime.now(timezone.utc)
    clock_steps,    \* number of clock advances so far
    manual_count,   \* number of manual triggers so far
    tasks,          \* table tasks: id -> row
    executions,     \* table task_executions: row id is the index
    results,        \* table task_results: row id is the index
    queue,          \* the broker queue of execute_task messages
    workers,        \* the celery worker processes running execute_task
    tick,           \* the running call of dispatch_scheduled_tasks
    tick_due,       \* the beat has fired and its tick has not started yet
    calls,          \* per execution: how its execute_task call stands
    handler_calls,  \* <<execution id, device id, k, raised>>: k-th handler call
    scheduler,      \* the TaskScheduler object, its loop task and a stop() call
    cron,           \* a call of the cron evaluator: its arguments and result
    conn            \* a MikroTikConnector, the device behind it and a call

\* the state of the components that take no part in task orchestration
others == <<scheduler, cron, conn>>

vars == <<now, clock_steps, manual_count, tasks, executions, results, queue,
          workers, tick, tick_due, calls, handler_calls, scheduler, cron, conn>>

IdleWorker ==
    [pc |-> "idle", task_id |-> None, execution_id |-> None, results |-> <<>>,
     idx |-> 0, failures |-> 0]

\* read and dispatched record, for the tasks the query returned, the
\* next_run_at the tick went by and the tasks it enqueued
IdleTick ==
    [pc |-> "idle", now |-> None, todo |-> <<>>, snap |-> <<>>, expired |-> FALSE,
     outcome |-> "none", read |-> <<>>, dispatched |-> {}]

\* TaskScheduler.__init__ (scheduler.py lines 9-12); loop is the state of the
\* asyncio task running _run_loop, stop that of a call of stop(), stops the
\* number of stop() calls, and stopped records that a stop() which awaited
\* the loop task has returned; starts is the number of start() calls and
\* loops the number of loop tasks created that have not ended
NewScheduler ==
    [_task |-> "None", _stop_event |-> FALSE, loop |-> "none", stop |-> "idle",
     stops |-> 0, stopped |-> FALSE, starts |-> 0, loops |-> 0]

\* no call of the cron evaluator has been made
NoCall == [pc |-> "idle"]

\* no connector has been constructed
NoConnector == [pc |-> "idle"]

Init ==
    /\ now = StartTime
    /\ clock_steps = 0
    /\ manual_count = 0
    /\ tasks \in TaskTables
    /\ executions = <<>>
    /\ results = <<>>
    /\ queue = <<>>
    /\ workers = [w \in Workers |-> IdleWorker]
    /\ tick = IdleTick
    /\ tick_due = TRUE
    /\ calls = <<>>
    /\ handler_calls = {}
    /\ scheduler = NewScheduler
    /\ cron = NoCall
    /\ conn = NoConnector

(***************************************************************************)
(* Environment: the clock and manual triggers.                             *)
(***************************************************************************)
AdvanceClock ==
    /\ clock_steps + manual_count < MaxEvents
    /\ \E d \in ClockSteps : now' = now + d
    /\ clock_steps' = clock_steps + 1
    /\ tick_due' = TRUE
    /\ UNCHANGED <<manual_count, tasks, executions, results, queue, workers,
                   tick, calls, handler_calls>>
    /\ UNCHANGED others

\* execute_task.delay(task_id, "manual")
ManualTrigger ==
    /\ clock_steps + manual_count < MaxEvents
    /\ \E t \in TaskIds \cup {AbsentTaskId} :
          queue' = Append(queue, [task_id |-> t, triggered_by |-> "manual"])
    /\ manual_count' = manual_count + 1
    /\ UNCHANGED <<now, clock_steps, tasks, executions, results, workers, tick,
                   tick_due, calls, handler_calls>>
    /\ UNCHANGED others

(***************************************************************************)
(* execute_task: one action per committed step of the celery task.  When   *)
(* the call ends the worker process is idle again; `calls` keeps how the   *)
(* call of each execution ended.                                           *)
(***************************************************************************)
Running == [state |-> "running", exc |-> ""]
Returned == [state |-> "returned", exc |-> ""]
Raised(message) == [state |-> "raised", exc |-> message]

\* SkipsTask that does not test is_enabled
SkipsTask_IgnoresEnabled(task_id) == task_id \notin DOMAIN tasks

\* lines 265-266: the task is not found or not enabled
SkipsTask(task_id) ==
    task_id \notin DOMAIN tasks \/ ~tasks[task_id].is_enabled

\* a worker process takes the next message; lines 263-273: load the task,
\* return when it is absent or disabled, else insert the execution row
StartExecute(w) ==
    /\ workers[w].pc = "idle"
    /\ \A v \in Workers : v < w => workers[v].pc # "idle"
    /\ queue # <<>>
    /\ LET msg == Head(queue)
       IN IF SkipsTask(msg.task_id)
          THEN UNCHANGED <<executions, workers, calls>>
          ELSE /\ executions' = Append(executions,
                     [task_id |-> msg.task_id, status |-> "running",
                      triggered_by |-> msg.triggered_by, finished_at |-> None])
               /\ calls' = Append(calls, Running)
               /\ workers' = [workers EXCEPT ![w] =
                     [IdleWorker EXCEPT !.pc = "collect", !.task_id = msg.task_id,
                                        !.execution_id = Len(executions) + 1]]
    /\ queue' = Tail(queue)
    /\ UNCHANGED <<now, clock_steps, manual_count, tasks, results, tick, tick_due,
                   handler_calls>>
    /\ UNCHANGED others

\* the result object of one device: its row id and its attributes
NewResult(row_id, execution_id, device_id) ==
    [id |-> row_id, execution_id |-> execution_id, device_id |-> device_id,
     status |-> "running", error_message |-> Null, finished_at |-> None]

ResultRow(r) ==
    [execution_id |-> r.execution_id, device_id |-> r.device_id,
     status |-> r.status, error_message |-> r.error_message,
     finished_at |-> r.finished_at]

\* CreateResults that adds a second result for the first device
CreateResults_Twice(device_ids, execution_id, first_id) ==
    LET ids == IF device_ids = <<>> THEN <<>> ELSE device_ids \o <<device_ids[1]>>
    IN [i \in 1..Len(ids) |-> NewResult(first_id + i - 1, execution_id, ids[i])]

\* lines 278-286: the result objects created for device_ids
CreateResults(device_ids, execution_id, first_id) ==
    [i \in 1..Len(device_ids) |->
        NewResult(first_id + i - 1, execution_id, device_ids[i])]

\* lines 275-287: expand the targets, insert one result row per device id
CollectTargets(w) ==
    /\ workers[w].pc = "collect"
    /\ LET device_ids == _collect_target_device_ids(tasks[workers[w].task_id])
           created == CreateResults(device_ids, workers[w].execution_id,
                                    Len(results) + 1)
       IN /\ results' = results \o [i \in 1..Len(created) |-> ResultRow(created[i])]
          /\ workers' = [workers EXCEPT ![w].pc = "handle", ![w].results = created,
                                        ![w].idx = 1]
    /\ UNCHANGED <<now, clock_steps, manual_count, tasks, executions, queue, tick,
                   tick_due, calls, handler_calls>>
    /\ UNCHANGED others

\* HandleOutcome with an except branch that drops the text of the error
HandleOutcome_NoMessage(result, outcome, failures, at) ==
    IF outcome.raised
    THEN [result |-> [result EXCEPT !.status = "failed", !.finished_at = at],
          failures |-> failures + 1, propagated |-> FALSE]
    ELSE [result |-> [result EXCEPT !.status = "success", !.finished_at = at],
          failures |-> failures, propagated |-> FALSE]

\* HandleOutcome without the except branch: the error leaves the loop
HandleOutcome_Propagates(result, outcome, failures, at) ==
    IF outcome.raised
    THEN [result |-> result, failures |-> failures, propagated |-> TRUE]
    ELSE [result |-> [result EXCEPT !.status = "success", !.finished_at = at],
          failures |-> failures, propagated |-> FALSE]

\* the try statement for one result, lines 291-303: what becomes of the
\* result object and of the failure count, and whether the error leaves
\* the statement
HandleOutcome(result, outcome, failures, at) ==
    IF outcome.raised
    THEN [result |-> [result EXCEPT !.status = "failed",
                                    !.error_message = outcome.error,
                                    !.finished_at = at],
          failures |-> failures + 1, propagated |-> FALSE]
    ELSE [result |-> [result EXCEPT !.status = "success", !.finished_at = at],
          failures |-> failures, propagated |-> FALSE]

\* the loop over the results stays at a result whose handler raised
NextResult_RetryFailed(idx, outcome) == IF outcome.raised THEN idx ELSE idx + 1

\* line 290: the for loop goes on to the next result, whether the handler
\* returned or raised
NextResult(idx, outcome) == idx + 1

\* lines 290-304: one iteration of the loop over the results
HandleDevice(w) ==
    /\ workers[w].pc = "handle"
    /\ workers[w].idx <= Len(workers[w].results)
    /\ \E remote \in RemoteOutcomes :
          LET me == workers[w]
              result == me.results[me.idx]
              outcome == _execute_task_for_device(tasks[me.task_id],
                                                  result.device_id, remote)
              after == HandleOutcome(result, outcome, me.failures, now)
              k == Cardinality({c \in handler_calls :
                                  c[1] = me.execution_id /\ c[2] = result.device_id})
          IN /\ handler_calls' = handler_calls \cup
                    {<<me.execution_id, result.device_id, k + 1, outcome.raised>>}
             /\ IF after.propagated
                THEN /\ workers' = [workers EXCEPT ![w] = IdleWorker]
                     /\ calls' = [calls EXCEPT ![me.execution_id] =
                                     Raised(outcome.error)]
                ELSE /\ workers' = [workers EXCEPT
                           ![w].results[me.idx] = after.result,
                           ![w].failures = after.failures,
                           ![w].idx = NextResult(me.idx, outcome)]
                     /\ UNCHANGED calls
    /\ UNCHANGED <<now, clock_steps, manual_count, tasks, executions, results,
                   queue, tick, tick_due>>
    /\ UNCHANGED others

\* line 305: session.commit() writes the result objects to their rows
CommitResults(w) ==
    /\ workers[w].pc = "handle"
    /\ workers[w].idx > Len(workers[w].results)
    /\ results' = [i \in 1..Len(results) |->
                     IF \E j \in 1..Len(workers[w].results) : workers[w].results[j].id = i
                     THEN ResultRow(workers[w].results[
                              CHOOSE j \in 1..Len(workers[w].results) :
                                  workers[w].results[j].id = i])
                     ELSE results[i]]
    /\ workers' = [workers EXCEPT ![w].pc = "finalize", ![w].results = <<>>,
                                  ![w].idx = 0]
    /\ UNCHANGED <<now, clock_steps, manual_count, tasks, executions, queue, tick,
                   tick_due, calls, handler_calls>>
    /\ UNCHANGED others

\* ExecutionStatus that does not look at the failure count
ExecutionStatus_IgnoresFailures(failures) == "success"

\* line 307
ExecutionStatus(failures) == IF failures # 0 THEN "failed" ELSE "success"

\* lines 307-314: roll the outcomes up, recompute next_run_at, commit; when
\* compute_next_run raises, nothing of this is committed and the error
\* leaves execute_task
FinalizeExecution(w) ==
    /\ workers[w].pc = "finalize"
    /\ LET me == workers[w]
           task == tasks[me.task_id]
       IN IF CronRaises(task.schedule_expression)
          THEN /\ calls' = [calls EXCEPT ![me.execution_id] = Raised("ValueError")]
               /\ UNCHANGED <<executions, tasks>>
          ELSE /\ executions' = [executions EXCEPT
                     ![me.execution_id].status = ExecutionStatus(me.failures),
                     ![me.execution_id].finished_at = now]
               /\ tasks' = [tasks EXCEPT
                     ![me.task_id].last_run_at = now,
                     ![me.task_id].next_run_at =
                         compute_next_run(now, task.schedule_expression,
                                          LookaheadMinutes)]
               /\ calls' = [calls EXCEPT ![me.execution_id] = Returned]
    /\ workers' = [workers EXCEPT ![w] = IdleWorker]
    /\ UNCHANGED <<now, clock_steps, manual_count, results, queue, tick, tick_due,
                   handler_calls>>
    /\ UNCHANGED others

execute_task(w) ==
    \/ StartExecute(w)
    \/ CollectTargets(w)
    \/ HandleDevice(w)
    \/ CommitResults(w)
    \/ FinalizeExecution(w)

(***************************************************************************)
(* dispatch_scheduled_tasks: the scheduler tick, one action per iteration  *)
(* of its loop (each iteration that writes commits on its own).  The beat  *)
(* schedule starts one tick per clock reading.                             *)
(***************************************************************************)
\* the orders in which a query without ORDER BY may return the rows S
Orders(S) ==
    {s \in [1..Cardinality(S) -> S] :
        \A i, j \in 1..Cardinality(S) : i # j => s[i] # s[j]}

\* line 322: the rows the query returns
EnabledTasks == {t \in DOMAIN tasks : tasks[t].is_enabled}

\* lines 319-322: take the time, load the enabled tasks
TickBegin ==
    /\ tick.pc = "idle"
    /\ tick_due
    /\ tick_due' = FALSE
    /\ \E order \in Orders(EnabledTasks) :
          tick' = [pc |-> "loop", now |-> now, todo |-> order, snap |-> tasks,
                   expired |-> FALSE, outcome |-> "none",
                   read |-> [t \in EnabledTasks |-> tasks[t].next_run_at],
                   dispatched |-> {}]
    /\ UNCHANGED <<now, clock_steps, manual_count, tasks, executions, results,
                   queue, workers, calls, handler_calls>>
    /\ UNCHANGED others

\* the attributes the tick sees of task t: the row as loaded by the query,
\* or the current row once a commit of this session has expired the objects
TickView(t) == IF tick.expired THEN tasks[t] ELSE tick.snap[t]

\* line 331
TaskIsDue(next_run, at, expression) ==
    next_run <= at /\ cron_matches(at, expression)

\* the iteration raises: compute_next_run (line 326) or cron_matches
\* (line 331) is evaluated on an expression that does not parse
TickTaskRaises(next_run, at, expression) ==
    /\ next_run = None \/ next_run <= at
    /\ CronRaises(expression)

\* lines 323-337: one iteration of the loop over the enabled tasks
TickTask ==
    /\ tick.pc = "loop"
    /\ tick.todo # <<>>
    /\ LET t == Head(tick.todo)
           task == TickView(t)
           next_run == task.next_run_at
           rest == [tick EXCEPT !.todo = Tail(tick.todo), !.read[t] = next_run]
       IN IF TickTaskRaises(next_run, tick.now, task.schedule_expression)
          THEN /\ tick' = [IdleTick EXCEPT !.outcome = "raised"]
               /\ UNCHANGED <<tasks, queue>>
          ELSE IF next_run = None
          THEN /\ tasks' = [tasks EXCEPT ![t].next_run_at =
                     compute_next_run(tick.now, task.schedule_expression,
                                      LookaheadMinutes)]
               /\ tick' = [rest EXCEPT !.expired = TRUE]
               /\ UNCHANGED queue
          ELSE IF TaskIsDue(next_run, tick.now, task.schedule_expression)
          THEN /\ queue' = Append(queue, [task_id |-> t, triggered_by |-> "schedule"])
               /\ tasks' = [tasks EXCEPT
                     ![t].last_run_at = tick.now,
                     ![t].next_run_at =
                         compute_next_run(tick.now, task.schedule_expression,
                                          LookaheadMinutes)]
               /\ tick' = [rest EXCEPT !.expired = TRUE,
                                       !.dispatched = tick.dispatched \cup {t}]
          ELSE /\ tick' = rest
               /\ UNCHANGED <<tasks, queue>>
    /\ UNCHANGED <<now, clock_steps, manual_count, executions, results, workers,
                   tick_due, calls, handler_calls>>
    /\ UNCHANGED others

\* lines 338-339: the loop is over, the session is closed
TickEnd ==
    /\ tick.pc = "loop"
    /\ tick.todo = <<>>
    /\ tick' = [IdleTick EXCEPT !.outcome = "returned"]
    /\ UNCHANGED <<now, clock_steps, manual_count, tasks, executions, results,
                   queue, workers, tick_due, calls, handler_calls>>
    /\ UNCHANGED others

dispatch_scheduled_tasks == TickBegin \/ TickTask \/ TickEnd

Next ==
    \/ AdvanceClock
    \/ ManualTrigger
    \/ dispatch_scheduled_tasks
    \/ \E w \in Workers : execute_task(w)

Spec == Init /\ [][Next]_vars

(***************************************************************************)
(* Properties.                                                             *)
(***************************************************************************)
ExecutionIds == 1..Len(executions)
Ended(e) == calls[e].state # "running"
\* the result rows of execution e, of its device d
RowsOf(e) == {i \in 1..Len(results) : results[i].execution_id = e}
RowsFor(e, d) == {i \in RowsOf(e) : results[i].device_id = d}
\* the resolved target devices of execution e
DevicesOf(e) == SeqRange(_collect_target_device_ids(tasks[executions[e].task_id]))
HandlerCallsOf(e, d) == {c \in handler_calls : c[1] = e /\ c[2] = d}

C2_ExecutionStatusRollup ==
    \A e \in ExecutionIds :
        /\ executions[e].status \in {"running", "success", "failed"}
        /\ calls[e].state = "returned" => executions[e].status # "running"
        /\ executions[e].status = "failed" =>
              \E i \in RowsOf(e) : results[i].status = "failed"
        /\ executions[e].status = "success" =>
              \A i \in RowsOf(e) : results[i].status = "success"

\* one finished execution is failed with a failed row, another is success
C2_Witness ==
    /\ \E e \in ExecutionIds :
          /\ executions[e].status = "failed"
          /\ \E i \in RowsOf(e) : results[i].status = "failed"
    /\ \E e \in ExecutionIds : executions[e].status = "success"

\* the errors a per-device handler call raises
HandlerErrors ==
    {"'Task' object has no attribute 'payload'", "Invalid task payload JSON",
     "Unsupported task type", "SSH connection required"}

\* a handler call of worker w raises in this step
HandlerRaisedIn(w) ==
    /\ workers[w].pc = "handle"
    /\ \E c \in handler_calls' \ handler_calls : c[1] = workers[w].execution_id /\ c[4]

\* C3: an error raised while one device is handled becomes a failed result
\* and does not end execute_task: after the step the call is still running
\* and goes on with the next result; no call ever ends with a handler's
\* error; and no step of execute_task touches the scheduler tick.
C3_HandlerErrorsConverted ==
    /\ [][\A w \in Workers : HandlerRaisedIn(w) =>
            /\ workers'[w].pc = "handle"
            /\ workers'[w].idx = workers[w].idx + 1
            /\ workers'[w].results[workers[w].idx].status = "failed"
            /\ calls'[workers[w].execution_id] = Running
            /\ tick' = tick /\ tick_due' = tick_due]_vars
    /\ [](\A e \in ExecutionIds :
            calls[e].state = "raised" => calls[e].exc \notin HandlerErrors)

\* an execute_task call has returned although one of its handlers raised
C3_Witness ==
    \E e \in ExecutionIds :
        /\ calls[e] = Returned
        /\ \E c \in handler_calls : c[1] = e /\ c[4]

\* C4: once execute_task has ended, its execution is no longer running: it
\* is success or failed with finished_at set, and all its result rows are
\* success or failed.
C4_ExecutionFinalized ==
    \A e \in ExecutionIds : Ended(e) =>
        /\ executions[e].status \in {"success", "failed"}
        /\ executions[e].finished_at # None
        /\ \A i \in RowsOf(e) : results[i].status \in {"success", "failed"}

\* ids as a sequence of device ids in strictly ascending order
Ascending(ids) == \A i, j \in 1..Len(ids) : i < j => ids[i] < ids[j]

\* the device ids the targets of a task name: those of its device targets
\* and the members of the groups of its group targets
NamedDevices(task) ==
    {d \in DeviceIds : \E i \in 1..Len(task.targets) :
        \/ task.targets[i].target_type = "device" /\ task.targets[i].device_id = d
        \/ /\ task.targets[i].target_type = "group"
           /\ task.targets[i].group_id # None
           /\ DeviceGroupId[d] = task.targets[i].group_id}

\* the device ids of the result objects a worker holds, in order
HeldDeviceIds(w) ==
    [i \in 1..Len(workers[w].results) |-> workers[w].results[i].device_id]

\* C5: the target expansion of a task is the ascending, duplicate-free
\* sequence of the device ids its device targets name and of the devices in
\* the groups its group targets name; execute_task works through exactly it.
C5_TargetExpansion ==
    /\ \A t \in DOMAIN tasks :
          LET ids == _collect_target_device_ids(tasks[t])
          IN Ascending(ids) /\ SeqRange(ids) = NamedDevices(tasks[t])
    /\ \A w \in Workers : workers[w].pc = "handle" =>
          /\ Ascending(HeldDeviceIds(w))
          /\ SeqRange(HeldDeviceIds(w)) = NamedDevices(tasks[workers[w].task_id])

\* a worker holds the results <<1, 2, 3>> of a task whose targets are
\* device 3, group 1 = {1, 2} and device 3 again
C5_Witness ==
    \E w \in Workers :
        /\ workers[w].pc = "handle"
        /\ tasks[workers[w].task_id].targets =
              <<DeviceTarget(3), GroupTarget(1), DeviceTarget(3)>>
        /\ HeldDeviceIds(w) = <<1, 2, 3>>

\* the execution a worker is busy with has got past target collection
Collected(e) == \A w \in Workers :
    workers[w].execution_id = e => workers[w].pc # "collect"

\* C6: an execution has no result row before its targets are collected and
\* afterwards exactly one row for each device of the expansion and no other
\* row; the rows are in state running until the results are committed.
C6_OneResultPerDevice ==
    \A e \in ExecutionIds :
        /\ ~Collected(e) => RowsOf(e) = {}
        /\ Collected(e) =>
              /\ Cardinality(RowsOf(e)) = Cardinality(DevicesOf(e))
              /\ \A i \in RowsOf(e) : results[i].device_id \in DevicesOf(e)
              /\ \A d \in DevicesOf(e) : Cardinality(RowsFor(e, d)) = 1
        /\ \A w \in Workers :
              workers[w].execution_id = e /\ workers[w].pc = "handle" =>
                  \A i \in RowsOf(e) : results[i].status = "running"

\* the rows of an execution over devices 1 and 2 have just been created
C6_Witness ==
    \E w \in Workers :
        /\ workers[w].pc = "handle" /\ workers[w].idx = 1
        /\ DevicesOf(workers[w].execution_id) = {1, 2}
        /\ Cardinality(RowsOf(workers[w].execution_id)) = 2

\* C7: an execution of a task whose target expansion is empty has no result
\* row, and once execute_task has ended its status is success.
C7_EmptyExpansionSucceeds ==
    \A e \in ExecutionIds : DevicesOf(e) = {} =>
        /\ RowsOf(e) = {}
        /\ Ended(e) => executions[e].status = "success"

\* the message at the head of the queue is taken in this step
TakesMessage == queue # <<>> /\ queue' = Tail(queue)

\* C8: taking a message whose task id has no row or whose task is disabled
\* changes nothing but the queue: no execution, no result, no handler call,
\* no busy worker, no raised call, and the task rows stay as they are, for
\* either trigger source.
C8_AbsentOrDisabledIsNoOp ==
    [][(TakesMessage /\ (Head(queue).task_id \notin DOMAIN tasks
                           \/ ~tasks[Head(queue).task_id].is_enabled)) =>
          /\ executions' = executions
          /\ results' = results
          /\ handler_calls' = handler_calls
          /\ calls' = calls
          /\ workers' = workers
          /\ tasks' = tasks]_vars

\* a manual trigger has been taken off the queue and no execution exists
C8_Witness ==
    /\ manual_count = 1
    /\ queue = <<>>
    /\ executions = <<>>
    /\ \A w \in Workers : workers[w] = IdleWorker

\* the running tick ends in this step, by returning or by raising
TickEnds == tick.pc = "loop" /\ tick'.pc = "idle"
\* the tick evaluates the task at the head of its list in this step
TickEvaluates == tick.pc = "loop" /\ tick.todo # <<>> /\ tick' # tick

\* the condition of the claim: next_run_at <= now and the expression
\* matches now (an expression that does not parse matches nothing)
DueAt(next_run, at, expression) ==
    /\ next_run <= at
    /\ ~CronRaises(expression)
    /\ cron_matches(at, expression)

\* C9: when a tick ends, each task its query returned whose next_run_at was
\* set has been enqueued by it exactly if next_run_at <= now and the
\* expression matches now; an iteration that dispatches enqueues the task
\* and writes next_run_at = compute_next_run(now), an iteration that does not
\* dispatch a task with next_run_at set changes neither the queue nor the
\* task rows; the query returns no disabled task.
C9_DispatchedIffDue ==
    [][/\ TickEnds =>
            \A t \in DOMAIN tick.read : tick.read[t] # None =>
                (t \in tick.dispatched
                    <=> DueAt(tick.read[t], tick.now, tasks[t].schedule_expression))
       /\ (TickEvaluates /\ tick'.pc = "loop") =>
            LET t == Head(tick.todo)
            IN tick'.read[t] # None =>
                 IF t \in tick'.dispatched
                 THEN /\ queue' = Append(queue, [task_id |-> t,
                                                 triggered_by |-> "schedule"])
                      /\ tasks'[t].next_run_at =
                            compute_next_run(tick.now, tasks[t].schedule_expression,
                                             LookaheadMinutes)
                 ELSE queue' = queue /\ tasks' = tasks
       /\ \A t \in DOMAIN tick.read : tasks[t].is_enabled]_vars

\* C10: an iteration of the tick over a task whose next_run_at is unset
\* writes next_run_at = compute_next_run(now, expression) and enqueues
\* nothing, and a tick does not end before it has gone through every task
\* whose next_run_at is unset.
C10_BootstrapSetsNextRun ==
    [][/\ (TickEvaluates /\ TickView(Head(tick.todo)).next_run_at = None) =>
            LET t == Head(tick.todo)
            IN /\ queue' = queue
               /\ tasks'[t].next_run_at # None
               /\ ~CronRaises(tasks[t].schedule_expression) =>
                     tasks'[t].next_run_at =
                        compute_next_run(tick.now, tasks[t].schedule_expression,
                                         LookaheadMinutes)
       /\ TickEnds => \A i \in 1..Len(tick.todo) : tick.read[tick.todo[i]] # None]_vars

\* no minute strictly between the times lo and hi matches the expression
NoMatchBetween(lo, hi, expression) ==
    ScanLoop(lo + 60, expression, ((hi - lo) \div 60) - 1) = None

\* next_run_at is the value compute_next_run gives from some minute not
\* later than the clock: the first match after the clock, or the fallback
EarliestFuture(next_run, at, expression) ==
    /\ ~CronRaises(expression)
    /\ NoMatchBetween(at, next_run, expression)
    /\ \/ cron_matches(next_run, expression)
       \/ /\ next_run - 60 * LookaheadMinutes <= at
          /\ NoMatchBetween(next_run - 60 * LookaheadMinutes, next_run, expression)

\* a next_run_at that lies in the future is the earliest future match
FutureNextRunIsEarliest ==
    \A t \in DOMAIN tasks :
        (tasks[t].next_run_at # None /\ tasks[t].next_run_at > now) =>
            EarliestFuture(tasks[t].next_run_at, now, tasks[t].schedule_expression)

\* C11: a next_run_at that lies in the future is the earliest future minute
\* at which the task's expression matches (or the lookahead fallback), and
\* after an iteration of a tick has evaluated a task, the task's next_run_at
\* is set and later than the time of the tick: it does not stay in the past.
C11_NextRunIsEarliestFuture ==
    /\ []FutureNextRunIsEarliest
    /\ [][(TickEvaluates /\ tick'.pc = "loop") =>
            /\ tasks'[Head(tick.todo)].next_run_at # None
            /\ tasks'[Head(tick.todo)].next_run_at > tick.now]_vars

\* C12: a failure while one task is evaluated stays with that task: a tick
\* ends only by returning, after it has evaluated every task its query
\* returned.
C12_TickFailureIsolated ==
    [][TickEnds => (tick.todo = <<>> /\ tick'.outcome = "returned")]_vars

(***************************************************************************)
(* TaskScheduler (task_manager/scheduler.py): the in-process scheduler     *)
(* loop.  start(), stop() and _run_loop run on one asyncio event loop; a   *)
(* coroutine runs until its next await, and dispatch_scheduled_tasks is a  *)
(* synchronous call, so no other coroutine runs while a tick is under way. *)
(***************************************************************************)
\* number of stop() calls explored
MaxStops == 2

\* the variables of task orchestration
orchestration ==
    <<now, clock_steps, manual_count, tasks, executions, results, queue,
      workers, tick, tick_due, calls, handler_calls>>

\* interval_seconds, scheduler.py line 9
interval_seconds == 60

\* the event loop is not inside the synchronous call of line 27
LoopIsFree == scheduler.loop # "tick"

\* number of start() calls made on one scheduler
MaxStarts == 2

\* start() without the test of line 15
start_Always ==
    /\ LoopIsFree
    /\ scheduler.starts < MaxStarts
    /\ scheduler' = [scheduler EXCEPT !._task = "Task", !.loop = "created",
                                      !.starts = @ + 1, !.loops = @ + 1]
    /\ UNCHANGED <<orchestration, cron, conn>>

\* lines 14-16: create the loop task unless there is one
start ==
    /\ LoopIsFree
    /\ scheduler.starts < MaxStarts
    /\ scheduler' =
          IF scheduler._task = "None"
          THEN [scheduler EXCEPT !._task = "Task", !.loop = "created",
                                 !.starts = @ + 1, !.loops = @ + 1]
          ELSE [scheduler EXCEPT !.starts = @ + 1]
    /\ UNCHANGED <<orchestration, cron, conn>>

\* line 26, on entry and after `continue`: leave the loop when the stop
\* event is set, else call dispatch_scheduled_tasks (line 27)
RunLoopTest ==
    /\ scheduler.loop \in {"created", "test"}
    /\ IF scheduler._stop_event
       THEN /\ scheduler' = [scheduler EXCEPT !.loop = "finished",
                                              !.loops = @ - 1]
            /\ UNCHANGED tick_due
       ELSE /\ scheduler' = [scheduler EXCEPT !.loop = "tick"]
            /\ tick_due' = TRUE
    /\ UNCHANGED <<now, clock_steps, manual_count, tasks, executions, results,
                   queue, workers, tick, calls, handler_calls, cron, conn>>

\* line 27 is over: the call returned (go on to wait, line 29) or raised
\* (the error leaves _run_loop and ends the loop task)
RunLoopTickDone ==
    /\ scheduler.loop = "tick"
    /\ tick.pc = "idle" /\ ~tick_due
    /\ scheduler' = [scheduler EXCEPT
          !.loop = IF tick.outcome = "raised" THEN "failed" ELSE "wait",
          !.loops = IF tick.outcome = "raised" THEN @ - 1 ELSE @]
    /\ UNCHANGED <<orchestration, cron, conn>>

\* lines 29-31: wait_for times out after interval_seconds
RunLoopTimeout ==
    /\ scheduler.loop = "wait"
    /\ clock_steps + manual_count < MaxEvents
    /\ now' = now + interval_seconds
    /\ clock_steps' = clock_steps + 1
    /\ scheduler' = [scheduler EXCEPT !.loop = "test"]
    /\ UNCHANGED <<manual_count, tasks, executions, results, queue, workers,
                   tick, tick_due, calls, handler_calls, cron, conn>>

\* line 29: the stop event is set, wait_for returns
RunLoopWoken ==
    /\ scheduler.loop = "wait"
    /\ scheduler._stop_event
    /\ scheduler' = [scheduler EXCEPT !.loop = "test"]
    /\ UNCHANGED <<orchestration, cron, conn>>

_run_loop == RunLoopTest \/ RunLoopTickDone \/ RunLoopTimeout \/ RunLoopWoken

\* lines 19-22: return at once when there is no loop task, else set the
\* stop event and await the loop task
StopCall ==
    /\ LoopIsFree
    /\ scheduler.stop # "awaiting"
    /\ scheduler.stops < MaxStops
    /\ scheduler' =
          IF scheduler._task = "None"
          THEN [scheduler EXCEPT !.stop = "returned", !.stops = @ + 1]
          ELSE [scheduler EXCEPT !._stop_event = TRUE, !.stop = "awaiting",
                                 !.stops = @ + 1]
    /\ UNCHANGED <<orchestration, cron, conn>>

\* StopResume that does not wait for the loop task to end
StopResume_NoAwait ==
    /\ scheduler.stop = "awaiting"
    /\ scheduler' =
          IF scheduler.loop = "failed"
          THEN [scheduler EXCEPT !.stop = "raised"]
          ELSE [scheduler EXCEPT !._task = "None", !.stop = "returned",
                                 !.stopped = TRUE]
    /\ UNCHANGED <<orchestration, cron, conn>>

\* lines 22-23: `await self._task` is over when the loop task has ended; it
\* re-raises the error of a loop task that failed, else _task is cleared
StopResume ==
    /\ scheduler.stop = "awaiting"
    /\ scheduler.loop \in {"finished", "failed"}
    /\ scheduler' =
          IF scheduler.loop = "failed"
          THEN [scheduler EXCEPT !.stop = "raised"]
          ELSE [scheduler EXCEPT !._task = "None", !.stop = "returned",
                                 !.stopped = TRUE]
    /\ UNCHANGED <<orchestration, cron, conn>>

stop == StopCall \/ StopResume

\* a TaskScheduler over the tasks table; no beat fires
SchedulerInit ==
    /\ now = StartTime
    /\ clock_steps = 0
    /\ manual_count = 0
    /\ tasks \in TaskTables
    /\ executions = <<>>
    /\ results = <<>>
    /\ queue = <<>>
    /\ workers = [w \in Workers |-> IdleWorker]
    /\ tick = IdleTick
    /\ tick_due = FALSE
    /\ calls = <<>>
    /\ handler_calls = {}
    /\ scheduler = NewScheduler
    /\ cron = NoCall
    /\ conn = NoConnector

SchedulerNext ==
    \/ start
    \/ stop
    \/ _run_loop
    \/ dispatch_scheduled_tasks

SchedulerSpec == SchedulerInit /\ [][SchedulerNext]_vars

\* a call of stop() returns in this step
StopReturns == scheduler.stop # "returned" /\ scheduler'.stop = "returned"
\* a call of stop() is made in this step
StopCalled == scheduler'.stops = scheduler.stops + 1
\* a tick starts in this step
TickStarts == tick.pc = "idle" /\ tick'.pc = "loop"

\* C13: a stop() call that had a loop task to wait for returns only when
\* that task has ended with no tick under way or due; once such a call has
\* returned no tick starts; no step of stop() is taken while a tick is under
\* way, a tick ends only by going through its list or by its own error, and
\* the step that enqueues a dispatch also writes the task's next_run_at;
\* stop() on a scheduler with no loop task returns in the step of the call.
C13_StopIsCooperative ==
    /\ [][(StopReturns /\ scheduler._task # "None") =>
            /\ scheduler.loop = "finished"
            /\ tick.pc = "idle" /\ ~tick_due]_vars
    /\ [][scheduler.stopped => ~TickStarts]_vars
    /\ [][tick.pc # "idle" => scheduler'.stop = scheduler.stop]_vars
    /\ [][TickEnds => (tick.todo = <<>> \/ tick'.outcome = "raised")]_vars
    /\ [][queue' # queue =>
            \E t \in DOMAIN tasks :
                /\ queue' = Append(queue, [task_id |-> t, triggered_by |-> "schedule"])
                /\ tasks'[t].next_run_at =
                      compute_next_run(tick.now, tasks[t].schedule_expression,
                                       LookaheadMinutes)]_vars
    /\ [][(StopCalled /\ scheduler._task = "None") =>
            /\ scheduler'.stop = "returned"
            /\ scheduler'._stop_event = scheduler._stop_event]_vars

\* stop() has returned after waiting for a loop task that ran a tick which
\* dispatched a task
C13_Witness ==
    /\ scheduler.stopped
    /\ scheduler.stop = "returned"
    /\ tick.outcome = "returned"
    /\ queue # <<>>

(***************************************************************************)
(* The cron evaluator on its own: one call of _parse_cron_field,           *)
(* cron_matches or compute_next_run on arguments drawn from bounded sets.  *)
(* A result is the value returned or the ValueError raised.                *)
(***************************************************************************)
\* number of comma-separated parts of the fields explored
MaxParts == 2

\* the parts the fields are built from
CronParts ==
    {Star, Bad, StepOf(0), StepOf(2), StepOf(7), StepOf(0 - 1),
     RangeOf(1, 5), RangeOf(5, 1), RangeOf(50, 70),
     Single(0), Single(5), Single(31), Single(61)}

\* value: the fields of one up to MaxParts parts
FieldValues == UNION {[1..n -> CronParts] : n \in 1..MaxParts}

\* minimum and maximum of the five fields, lines 43-47
FieldRanges == {<<0, 59>>, <<0, 23>>, <<1, 31>>, <<1, 12>>, <<0, 6>>}

\* "0 0 31 * *"
DayThirtyOne ==
    <<<<Single(0)>>, <<Single(0)>>, <<Single(31)>>, <<Star>>, <<Star>>>>
\* "30 12 * * 0"
MondayNoon ==
    <<<<Single(30)>>, <<Single(12)>>, <<Star>>, <<Star>>, <<Single(0)>>>>
\* "61,5 * 29-40 */1 *"
PartlyOutOfRange ==
    <<<<Single(61), Single(5)>>, <<Star>>, <<RangeOf(29, 40)>>, <<StepOf(1)>>, <<Star>>>>
\* "*,5 * * * *"
StarInList == <<<<Star, Single(5)>>, <<Star>>, <<Star>>, <<Star>>, <<Star>>>>
\* "*/0 * * * *"
ZeroStep == <<<<StepOf(0)>>, <<Star>>, <<Star>>, <<Star>>, <<Star>>>>

CronExpressions ==
    {EveryMinute, EvenMinutes, FirstOfMonth, DayThirtyOne, MondayNoon,
     PartlyOutOfRange, FourFields, StarInList, ZeroStep}

\* 2024-01-31 23:59, 2024-02-01 00:00:30, 2024-02-28 23:58, 2024-03-30 00:05,
\* 2024-12-29 12:30 (a Sunday), 2024-12-31 23:59
CronTimes ==
    {30 * 86400 + 23 * 3600 + 59 * 60,
     31 * 86400 + 30,
     58 * 86400 + 23 * 3600 + 58 * 60,
     89 * 86400 + 5 * 60,
     363 * 86400 + 12 * 3600 + 30 * 60,
     365 * 86400 + 23 * 3600 + 59 * 60}

\* lookahead_minutes: none, one, a few, the default
Lookaheads == {0, 1, 5, LookaheadMinutes}

Returned_(value) == [raised |-> FALSE, value |-> value]
ValueError == [raised |-> TRUE, value |-> None]

CronCalls ==
    {[pc |-> "called", fn |-> "_parse_cron_field", value |-> v,
      minimum |-> r[1], maximum |-> r[2]] : v \in FieldValues, r \in FieldRanges}
    \cup
    {[pc |-> "called", fn |-> "cron_matches", dt |-> t, expression |-> e] :
        t \in CronTimes, e \in CronExpressions}
    \cup
    {[pc |-> "called", fn |-> "compute_next_run", now |-> t, expression |-> e,
      lookahead_minutes |-> l] :
        t \in CronTimes, e \in CronExpressions, l \in Lookaheads}

\* nothing is going on in task orchestration: an empty tasks table
NoOrchestration ==
    /\ now = StartTime
    /\ clock_steps = 0
    /\ manual_count = 0
    /\ tasks = <<>>
    /\ executions = <<>>
    /\ results = <<>>
    /\ queue = <<>>
    /\ workers = [w \in Workers |-> IdleWorker]
    /\ tick = IdleTick
    /\ tick_due = FALSE
    /\ calls = <<>>
    /\ handler_calls = {}

\* lines 23-38: the sorted list returned, or the ValueError of int()/range()
CallParseCronField ==
    /\ cron.pc = "called" /\ cron.fn = "_parse_cron_field"
    /\ cron' = [pc |-> "done", fn |-> cron.fn, value |-> cron.value,
                minimum |-> cron.minimum, maximum |-> cron.maximum,
                result |-> IF ParseRaises(cron.value) THEN ValueError
                           ELSE Returned_(SortedSeq(_parse_cron_field(
                                    cron.value, cron.minimum, cron.maximum)))]
    /\ UNCHANGED <<orchestration, scheduler, conn>>

\* lines 41-55
CallCronMatches ==
    /\ cron.pc = "called" /\ cron.fn = "cron_matches"
    /\ cron' = [pc |-> "done", fn |-> cron.fn, dt |-> cron.dt,
                expression |-> cron.expression,
                result |-> IF CronRaises(cron.expression) THEN ValueError
                           ELSE Returned_(cron_matches(cron.dt, cron.expression))]
    /\ UNCHANGED <<orchestration, scheduler, conn>>

\* lines 58-64; with lookahead_minutes = 0 the loop body never runs and
\* cron_matches is not called
CallComputeNextRun ==
    /\ cron.pc = "called" /\ cron.fn = "compute_next_run"
    /\ cron' = [pc |-> "done", fn |-> cron.fn, now |-> cron.now,
                expression |-> cron.expression,
                lookahead_minutes |-> cron.lookahead_minutes,
                result |-> IF cron.lookahead_minutes > 0 /\ CronRaises(cron.expression)
                           THEN ValueError
                           ELSE Returned_(compute_next_run(
                                    cron.now, cron.expression, cron.lookahead_minutes))]
    /\ UNCHANGED <<orchestration, scheduler, conn>>

CronInit ==
    /\ NoOrchestration
    /\ scheduler = NewScheduler
    /\ conn = NoConnector
    /\ cron \in CronCalls

CronNext == CallParseCronField \/ CallCronMatches \/ CallComputeNextRun

CronSpec == CronInit /\ [][CronNext]_vars

\* a finished call of fn
Done(fn) == cron.pc = "done" /\ cron.fn = fn

\* a finished call of compute_next_run on an expression that parses
NextRunDone == Done("compute_next_run") /\ ~CronRaises(cron.expression)

\* the k in 1..L for which now + k minutes matches the expression
MatchingMinutes(at, expression, L) ==
    {k \in 1..L : cron_matches(at + 60 * k, expression)}

\* C14 (as stated): for a five-field expression that parses and any time t,
\* compute_next_run(t, expr) with the default lookahead is later than t and
\* matches the expression.
C14_NextRunLaterAndMatches ==
    (NextRunDone /\ cron.lookahead_minutes = LookaheadMinutes) =>
        /\ ~cron.result.raised
        /\ cron.result.value > cron.now
        /\ cron_matches(cron.result.value, cron.expression)

\* C14 (amended): compute_next_run(t, expr) is later than t, and it matches
\* the expression exactly when some minute of the lookahead window after t
\* matches; when none does it is t + lookahead, which does not match.
C14_NextRunLaterAndMatchesInWindow ==
    (NextRunDone /\ cron.lookahead_minutes = LookaheadMinutes) =>
        LET window == MatchingMinutes(cron.now, cron.expression, LookaheadMinutes)
        IN /\ ~cron.result.raised
           /\ cron.result.value > cron.now
           /\ cron_matches(cron.result.value, cron.expression) <=> window # {}
           /\ window = {} => cron.result.value = cron.now + 60 * LookaheadMinutes

\* "30 12 * * 0" from Sunday 2024-12-29 12:30 gives the Monday, 12:30
C14_Witness ==
    /\ NextRunDone
    /\ cron.lookahead_minutes = LookaheadMinutes
    /\ cron.expression = MondayNoon
    /\ cron.now = 363 * 86400 + 12 * 3600 + 30 * 60
    /\ cron.result.value = 364 * 86400 + 12 * 3600 + 30 * 60
    /\ cron_matches(cron.result.value, cron.expression)

\* C15: compute_next_run(t, expr, L) is t + k minutes for the smallest k in
\* 1..L whose minute matches and t + L minutes when there is none; it is at
\* most L minutes after t and no minute strictly in between matches.
C15_NextRunIsFirstMatchOrFallback ==
    NextRunDone =>
        LET L == cron.lookahead_minutes
            window == MatchingMinutes(cron.now, cron.expression, L)
        IN /\ ~cron.result.raised
           /\ window # {} =>
                 \E k \in window :
                     /\ \A j \in window : k <= j
                     /\ cron.result.value = cron.now + 60 * k
           /\ window = {} => cron.result.value = cron.now + 60 * L
           /\ cron.result.value <= cron.now + 60 * L
           /\ \A k \in 1..L :
                 cron.now + 60 * k < cron.result.value =>
                     ~cron_matches(cron.now + 60 * k, cron.expression)

\* "0,5 0 1 * *" from 2024-02-01 00:00:30 with a lookahead of five minutes
\* gives 00:05:30, the fifth and last minute of the window
C15_Witness ==
    /\ NextRunDone
    /\ cron.expression = FirstOfMonth
    /\ cron.now = 31 * 86400 + 30
    /\ cron.lookahead_minutes = 5
    /\ cron.result.value = 31 * 86400 + 5 * 60 + 30

\* minute, hour, day of month, month and weekday of a time
TimeFields(dt) == <<Minute(dt), Hour(dt), Day(dt), Month(dt), Weekday(dt)>>
\* the minimum and maximum of the five fields
FieldBounds == <<<<0, 59>>, <<0, 23>>, <<1, 31>>, <<1, 12>>, <<0, 6>>>>

\* the i-th value of the time is in the set the i-th field resolves to
FieldHolds(dt, expression, i) ==
    TimeFields(dt)[i] \in
        _parse_cron_field(expression[i], FieldBounds[i][1], FieldBounds[i][2])

\* C16: cron_matches(time, expression) is true exactly when each of the
\* five values of the time is in the set its field resolves to; one field
\* that does not hold makes it false.
C16_MatchesIffAllFieldsHold ==
    (Done("cron_matches") /\ ~CronRaises(cron.expression)) =>
        /\ ~cron.result.raised
        /\ cron.result.value = TRUE <=>
              \A i \in 1..5 : FieldHolds(cron.dt, cron.expression, i)
        /\ (\E i \in 1..5 : ~FieldHolds(cron.dt, cron.expression, i)) =>
              cron.result.value = FALSE

\* "30 12 * * 0" on Sunday 2024-12-29 12:30: the weekday alone does not hold
C16_Witness ==
    /\ Done("cron_matches")
    /\ cron.expression = MondayNoon
    /\ cron.dt = 363 * 86400 + 12 * 3600 + 30 * 60
    /\ \A i \in 1..4 : FieldHolds(cron.dt, cron.expression, i)
    /\ cron.result.value = FALSE

\* a field the evaluator resolves: "*", or a list of "*/N" with N >= 1,
\* "A-B" and integer parts
Resolvable(value) ==
    \/ value = <<Star>>
    \/ \A i \in 1..Len(value) :
          \/ value[i].kind \in {"range", "int"}
          \/ value[i].kind = "step" /\ value[i].a >= 1

\* the values a part stands for
PartMeaning(part, minimum, maximum) ==
    CASE part.kind = "star" -> minimum..maximum
      [] part.kind = "step" ->
            {minimum + k * part.a : k \in 0..(maximum - minimum)}
      [] part.kind = "range" -> {v \in part.a..part.b : TRUE}
      [] OTHER -> {part.a}

MaxLines == 2

\* the token "key=value"
KeyValue(key, value) == key \o <<"=">> \o value

\* "=" in part
HasEquals(part) == \E i \in 1..Len(part) : part[i] = "="

\* the index of the first "=" of a token that has one
FirstEquals(part) ==
    CHOOSE i \in 1..Len(part) :
        part[i] = "=" /\ \A j \in 1..(i - 1) : part[j] # "="

\* the index of the last "=" of a token that has one
LastEquals(part) ==
    CHOOSE i \in 1..Len(part) :
        part[i] = "=" /\ \A j \in (i + 1)..Len(part) : part[j] # "="

\* part.split("=", 1) taken at the last "=" instead of the first
SplitPart_AtLast(part) ==
    <<SubSeq(part, 1, LastEquals(part) - 1),
      SubSeq(part, LastEquals(part) + 1, Len(part))>>

\* line 258: k, v = part.split("=", 1)
SplitPart(part) ==
    <<SubSeq(part, 1, FirstEquals(part) - 1),
      SubSeq(part, FirstEquals(part) + 1, Len(part))>>

\* lines 255-259: the dict built from the tokens of one line; a later token
\* overwrites an earlier one with the same key
ParseLine(line) ==
    LET with == {i \in 1..Len(line) : HasEquals(line[i])}
        keys == {SplitPart(line[i])[1] : i \in with}
        last(k) == CHOOSE i \in with :
                      /\ SplitPart(line[i])[1] = k
                      /\ \A j \in with : SplitPart(line[j])[1] = k => j <= i
    IN [k \in keys |-> SplitPart(line[last(k)])[2]]

RECURSIVE ParseLines(_, _)
\* lines 252-261: the loop over output.splitlines() from line i on
ParseLines(output, i) ==
    IF i > Len(output) THEN <<>>
    ELSE LET entry == ParseLine(output[i])
         IN IF DOMAIN entry = {} THEN ParseLines(output, i + 1)
            ELSE <<entry>> \o ParseLines(output, i + 1)

\* lines 246-262
_parse_print(output) == ParseLines(output, 1)

\* a dict given by its <<key, value>> pairs
Rec(pairs) ==
    [k \in {p[1] : p \in pairs} |-> (CHOOSE p \in pairs : p[1] = k)[2]]

\* address-list entries of the device
WhiteListed5 ==
    Rec({<<<<".id">>, <<"*1">>>>, <<<<"list">>, <<"WhiteList">>>>,
         <<<<"address">>, <<"10.0.0.5">>>>, <<<<"comment">>, <<"test">>>>})
BlackListed5 ==
    Rec({<<<<".id">>, <<"*2">>>>, <<<<"list">>, <<"BlackList">>>>,
         <<<<"address">>, <<"10.0.0.5">>>>})
WhiteListed9 ==
    Rec({<<<<".id">>, <<"*3">>>>, <<<<"list">>, <<"WhiteList">>>>,
         <<<<"address">>, <<"10.0.0.9">>>>, <<<<"comment">>, <<"a", "=", "b">>>>})

\* the states of the device explored
DeviceStates == {<<>>, <<WhiteListed5, BlackListed5, WhiteListed9>>}

\* the order in which the device prints the properties of an entry
PrintedKeys == <<<<".id">>, <<"list">>, <<"address">>, <<"comment">>>>

RECURSIVE ShellTokens(_, _)
\* the "key=value" tokens of the line the device prints for an entry
ShellTokens(record, i) ==
    IF i > Len(PrintedKeys) THEN <<>>
    ELSE IF PrintedKeys[i] \in DOMAIN record
    THEN <<KeyValue(PrintedKeys[i], record[PrintedKeys[i]])>>
         \o ShellTokens(record, i + 1)
    ELSE ShellTokens(record, i + 1)

\* stdout of "/<path> print": a "Flags:" line, then one line per entry
ShellPrint(records) ==
    <<<<<<"Flags:">>, <<"X">>, <<"-">>, <<"disabled">>>>>>
    \o [i \in 1..Len(records) |-> ShellTokens(records[i], 1)]

\* the entries that satisfy the filter
Filtered(records, where) ==
    SelectSeq(records, LAMBDA r :
        \A k \in DOMAIN where : k \in DOMAIN r /\ r[k] = where[k])

\* the identifiers the device gives to new entries, in this order
IdPool == <<"*4", "*5", "*6", "*7", "*8", "*9", "*A", "*B">>

\* the first identifier of the pool that no entry of the device has
FreshId(device) ==
    IdPool[CHOOSE n \in 1..Len(IdPool) :
              /\ \A i \in 1..Len(device) : device[i][<<".id">>] # <<IdPool[n]>>
              /\ \A m \in 1..(n - 1) :
                    \E i \in 1..Len(device) : device[i][<<".id">>] = <<IdPool[m]>>]

\* the entry the device creates from the properties given
Created(device, params) ==
    Rec({<<k, params[k]>> : k \in DOMAIN params}
        \cup {<<<<".id">>, <<FreshId(device)>>>>})

\* the entries left when the entry with the identifier is removed
Removed(records, id) ==
    SelectSeq(records, LAMBDA r : r[<<".id">>] # id)

\* the outcome of a call: it returns value or raises error
RosReturns(value) == [raised |-> FALSE, error |-> "", value |-> value]
RosRaises(message) == [raised |-> TRUE, error |-> message, value |-> <<>>]

\* lines 156-192: outcome of _execute_api and the entries of the device
\* afterwards; fails: the API channel answers with an error
_execute_api(device, action, params, where, fails) ==
    IF action \notin {"print", "add", "remove"}
    THEN [outcome |-> RosRaises("Unsupported action"), device |-> device,
          contacted |-> FALSE]
    ELSE IF action = "remove" /\ DOMAIN params = {}
    THEN [outcome |-> RosRaises("Missing parameters for remove"),
          device |-> device, contacted |-> FALSE]
    ELSE IF fails \/ (action = "remove" /\ <<".id">> \notin DOMAIN params)
    THEN [outcome |-> RosRaises("API error"), device |-> device,
          contacted |-> TRUE]
    ELSE IF action = "print"
    THEN [outcome |-> RosReturns(Filtered(device, where)), device |-> device,
          contacted |-> TRUE]
    ELSE IF action = "add"
    THEN [outcome |-> RosReturns(<<>>), device |-> Append(device, Created(device, params)),
          contacted |-> TRUE]
    ELSE [outcome |-> RosReturns(<<>>), device |-> Removed(device, params[<<".id">>]),
          contacted |-> TRUE]

\* lines 198-228: outcome of _execute_ssh and the entries of the device
\* afterwards; err: the command writes to stderr and changes nothing
_execute_ssh(device, action, params, where, err) ==
    IF action = "print"
    THEN [outcome |-> IF err THEN RosRaises("stderr")
                      ELSE RosReturns(_parse_print(ShellPrint(device))),
          device |-> device, contacted |-> TRUE]
    ELSE IF action = "add"
    THEN [outcome |-> RosReturns(<<>>),
          device |-> IF err THEN device ELSE Append(device, Created(device, params)),
          contacted |-> TRUE]
    ELSE IF action = "remove"
    THEN IF <<".id">> \notin DOMAIN params
         THEN [outcome |-> RosRaises("Missing .id for remove"), device |-> device,
               contacted |-> FALSE]
         ELSE [outcome |-> RosReturns(<<>>),
               device |-> IF err THEN device ELSE Removed(device, params[<<".id">>]),
               contacted |-> TRUE]
    ELSE [outcome |-> RosRaises("Unsupported action"), device |-> device,
          contacted |-> FALSE]

\* the arguments of ros_execute explored
RosActions == {"print", "add", "remove", "reset"}
NoParams == Rec({})
RosParams ==
    {NoParams, Rec({<<<<".id">>, <<"*1">>>>}),
     Rec({<<<<"list">>, <<"WhiteList">>>>, <<<<"address">>, <<"10.0.0.7">>>>})}
RosFilters ==
    {NoParams, Rec({<<<<"list">>, <<"WhiteList">>>>}),
     Rec({<<<<"list">>, <<"WhiteList">>>>, <<<<"address">>, <<"10.0.0.5">>>>})}

\* a connector after connect(): each channel is open or not; a device that
\* answers or fails on each channel; a call of ros_execute
RosCalls ==
    {[pc |-> "called", fn |-> "ros_execute", api_connection |-> api,
      ssh_client |-> ssh, api_fails |-> f, ssh_err |-> e, device |-> d,
      before |-> d, action |-> a, params |-> p, where |-> w,
      tried |-> <<>>, contacted |-> <<>>, api_outcome |-> RosReturns(<<>>),
      outcome |-> RosReturns(<<>>)] :
        api \in BOOLEAN, ssh \in BOOLEAN, f \in BOOLEAN, e \in BOOLEAN,
        d \in DeviceStates, a \in RosActions, p \in RosParams, w \in RosFilters}

\* what ros_execute does with an error of the API channel: it propagates
AfterApi_NoFallback(outcome) == "done"

\* lines 141-144: return the result of the API channel, or swallow its
\* error and go on to the SSH channel
AfterApi(outcome) == IF outcome.raised THEN "fallback" ELSE "done"

\* lines 140-144: the API channel is open and is tried first
TryApi ==
    /\ conn.pc = "called" /\ conn.fn = "ros_execute"
    /\ conn.api_connection
    /\ LET r == _execute_api(conn.device, conn.action, conn.params, conn.where,
                             conn.api_fails)
       IN conn' = [conn EXCEPT
             !.pc = AfterApi(r.outcome),
             !.device = r.device,
             !.tried = Append(@, "api"),
             !.contacted = IF r.contacted THEN Append(@, "api") ELSE @,
             !.api_outcome = r.outcome,
             !.outcome = r.outcome]
    /\ UNCHANGED <<orchestration, scheduler, cron>>

\* lines 140-144 and 190-192: the API channel is tried, the device applies
\* the add or remove, and the call still ends in an error (the answer is
\* lost: the socket times out or breaks before the reply is read)
TryApiLost ==
    /\ conn.pc = "called" /\ conn.fn = "ros_execute"
    /\ conn.api_connection /\ conn.api_fails
    /\ conn.action \in {"add", "remove"}
    /\ LET r == _execute_api(conn.device, conn.action, conn.params, conn.where,
                             FALSE)
       IN /\ ~r.outcome.raised
          /\ conn' = [conn EXCEPT
                !.pc = AfterApi(RosRaises("API error")),
                !.device = r.device,
                !.tried = Append(@, "api"),
                !.contacted = Append(@, "api"),
                !.api_outcome = RosRaises("API error"),
                !.outcome = RosRaises("API error")]
    /\ UNCHANGED <<orchestration, scheduler, cron>>

\* line 140: the API channel is not open
SkipApi ==
    /\ conn.pc = "called" /\ conn.fn = "ros_execute"
    /\ ~conn.api_connection
    /\ conn' = [conn EXCEPT !.pc = "fallback"]
    /\ UNCHANGED <<orchestration, scheduler, cron>>

\* lines 147-148: the SSH channel is open
TrySsh ==
    /\ conn.pc = "fallback"
    /\ conn.ssh_client
    /\ LET r == _execute_ssh(conn.device, conn.action, conn.params, conn.where,
                             conn.ssh_err)
       IN conn' = [conn EXCEPT
             !.pc = "done",
             !.device = r.device,
             !.tried = Append(@, "ssh"),
             !.contacted = IF r.contacted THEN Append(@, "ssh") ELSE @,
             !.outcome = r.outcome]
    /\ UNCHANGED <<orchestration, scheduler, cron>>

\* line 150
NoChannel ==
    /\ conn.pc = "fallback"
    /\ ~conn.ssh_client
    /\ conn' = [conn EXCEPT
          !.pc = "done",
          !.outcome = RosRaises("No available API or SSH connection")]
    /\ UNCHANGED <<orchestration, scheduler, cron>>

ros_execute == TryApi \/ TryApiLost \/ SkipApi \/ TrySsh \/ NoChannel

\* lines of shell output: the line of the example, a line of words, a line
\* with a leading number, an empty line, a value with "=", an empty key and
\* an empty value, a key given twice, a lone "="
PrintLines ==
    {<<KeyValue(<<"address">>, <<"10.0.0.5">>), KeyValue(<<"list">>, <<"WhiteList">>),
       KeyValue(<<"comment">>, <<"test">>)>>,
     <<<<"Flags:">>, <<"X">>, <<"-">>, <<"disabled">>>>,
     <<<<"0">>, KeyValue(<<"list">>, <<"BlackList">>), KeyValue(<<"address">>, <<"10.0.0.9">>)>>,
     <<>>,
     <<KeyValue(<<"comment">>, <<"a", "=", "b">>), KeyValue(<<"list">>, <<"WhiteList">>)>>,
     <<<<"=", "x">>, <<"k", "=">>>>,
     <<KeyValue(<<"list">>, <<"A">>), KeyValue(<<"list">>, <<"B">>)>>,
     <<<<"=">>>>}

\* the outputs of up to MaxLines lines
PrintOutputs == UNION {[1..n -> PrintLines] : n \in 0..MaxLines}

ParseCalls ==
    {[pc |-> "called", fn |-> "_parse_print", output |-> o] : o \in PrintOutputs}

\* lines 246-262
CallParsePrint ==
    /\ conn.pc = "called" /\ conn.fn = "_parse_print"
    /\ conn' = [pc |-> "done", fn |-> conn.fn, output |-> conn.output,
                result |-> _parse_print(conn.output)]
    /\ UNCHANGED <<orchestration, scheduler, cron>>

ConnectorInit ==
    /\ NoOrchestration
    /\ scheduler = NewScheduler
    /\ cron = NoCall
    /\ conn \in RosCalls \cup ParseCalls

ConnectorNext == ros_execute \/ CallParsePrint

ConnectorSpec == ConnectorInit /\ [][ConnectorNext]_vars

\* a call of ros_execute that has returned or raised
RosDone == conn.pc = "done" /\ conn.fn = "ros_execute"

\* what each channel answers for the call, on the device as it was
ApiAnswer ==
    _execute_api(conn.before, conn.action, conn.params, conn.where, conn.api_fails)
SshAnswer ==
    _execute_ssh(conn.before, conn.action, conn.params, conn.where, conn.ssh_err)

\* C18: ros_execute tries the API channel first whenever it is open; when
\* that channel fails and the SSH channel is open, the outcome is that of the
\* SSH channel; with only the SSH channel open it is used directly; with
\* neither open the call raises the connectivity error, no channel is tried
\* and the device is left as it was.
C18_ChannelOrderAndFallback ==
    RosDone =>
        /\ conn.api_connection =>
              /\ Len(conn.tried) >= 1 /\ conn.tried[1] = "api"
              /\ conn.api_outcome = ApiAnswer.outcome
              /\ ~ApiAnswer.outcome.raised =>
                    conn.tried = <<"api">> /\ conn.outcome = ApiAnswer.outcome
              /\ (ApiAnswer.outcome.raised /\ conn.ssh_client) =>
                    /\ conn.tried = <<"api", "ssh">>
                    /\ conn.outcome = SshAnswer.outcome
        /\ (~conn.api_connection /\ conn.ssh_client) =>
              conn.tried = <<"ssh">> /\ conn.outcome = SshAnswer.outcome
        /\ (~conn.api_connection /\ ~conn.ssh_client) =>
              /\ conn.outcome = RosRaises("No available API or SSH connection")
              /\ conn.tried = <<>> /\ conn.contacted = <<>>
              /\ conn.device = conn.before

\* the API channel failed on the device and the SSH channel returned the
\* entries of a non-empty address list
C18_Witness ==
    /\ RosDone
    /\ conn.api_connection /\ conn.api_fails /\ conn.ssh_client
    /\ conn.action = "print"
    /\ conn.contacted = <<"api", "ssh">>
    /\ ~conn.outcome.raised /\ Len(conn.outcome.value) = 3

\* C19: a call served by the SSH channel returns the records the API channel
\* returns for the same device state, action, parameters and filter; a print
\* with a filter returns only the records that satisfy the filter.
C19_ChannelsReturnSameRecords ==
    (/\ RosDone
     /\ conn.tried # <<>> /\ conn.tried[Len(conn.tried)] = "ssh"
     /\ ~conn.outcome.raised) =>
        /\ conn.outcome.value =
              _execute_api(conn.before, conn.action, conn.params, conn.where,
                           FALSE).outcome.value
        /\ conn.action = "print" =>
              \A i \in 1..Len(conn.outcome.value) :
                 \A k \in DOMAIN conn.where :
                    /\ k \in DOMAIN conn.outcome.value[i]
                    /\ conn.outcome.value[i][k] = conn.where[k]

\* a call of _parse_print that has returned
ParseDone == conn.pc = "done" /\ conn.fn = "_parse_print"

\* the token is key, "=", value and the key holds no "="
IsKeyValue(part, key, value) ==
    /\ part = KeyValue(key, value)
    /\ \A i \in 1..Len(key) : key[i] # "="

\* the lines of the output that hold a token with "="
RecordLines(output) ==
    {i \in 1..Len(output) :
        \E j \in 1..Len(output[i]) : \E n \in 1..Len(output[i][j]) :
            output[i][j][n] = "="}

\* the record is the one the line gives: its keys are the keys of the tokens
\* with "=", and each such token gives its key the value after its first "="
\* unless a later token of the line has the same key
RecordOf(record, line) ==
    /\ \A k \in DOMAIN record :
          \E j \in 1..Len(line) : \E n \in 1..Len(line[j]) :
             IsKeyValue(line[j], k, SubSeq(line[j], n + 1, Len(line[j])))
    /\ \A j \in 1..Len(line) : \A n \in 1..Len(line[j]) :
          LET key == SubSeq(line[j], 1, n - 1)
              value == SubSeq(line[j], n + 1, Len(line[j]))
          IN (line[j][n] = "=" /\ IsKeyValue(line[j], key, value)) =>
                /\ key \in DOMAIN record
                /\ (\A l \in (j + 1)..Len(line) : \A m \in 1..Len(line[l]) :
                       ~IsKeyValue(line[l], key, SubSeq(line[l], m + 1, Len(line[l]))))
                   => record[key] = value

\* C20: _parse_print returns, in line order, one record per line that holds
\* a token with "="; each token is split at its first "=" into key and value,
\* tokens without "=" are ignored, and a line that gives no pair gives no
\* record.
C20_ParsePrint ==
    ParseDone =>
        LET lines == RecordLines(conn.output)
        IN /\ Len(conn.result) = Cardinality(lines)
           /\ \A i \in lines :
                 RecordOf(conn.result[Cardinality({l \in lines : l <= i})],
                          conn.output[i])

\* the "Flags:" line gives no record and the line of the example gives
\* {address: 10.0.0.5, list: WhiteList, comment: test}
C20_Witness ==
    /\ ParseDone
    /\ conn.output =
          <<<<<<"Flags:">>, <<"X">>, <<"-">>, <<"disabled">>>>,
            <<KeyValue(<<"address">>, <<"10.0.0.5">>), KeyValue(<<"list">>, <<"WhiteList">>),
              KeyValue(<<"comment">>, <<"test">>)>>>>
    /\ conn.result =
          <<Rec({<<<<"address">>, <<"10.0.0.5">>>>, <<<<"list">>, <<"WhiteList">>>>,
                 <<<<"comment">>, <<"test">>>>})>>

(***************************************************************************)
(* MikroTikConnector.connect and disconnect (connector.py lines 38-114).   *)
(* The connector holds three references, set (TRUE) or None (FALSE).  The  *)
(* device decides whether each handshake succeeds and whether each close() *)
(* raises.  sessions are the transports opened and not closed since.       *)
(***************************************************************************)
\* number of connect() and disconnect() calls made on one connector
MaxCalls == 3

Channels == {"api", "ssh", "sftp"}

\* lines 30-32, and the device the connector talks to
NewConnectors ==
    {[pc |-> "idle", fn |-> "none", outcome |-> "none", calls |-> 0,
      api_connection |-> FALSE, ssh_client |-> FALSE, sftp_client |-> FALSE,
      up |-> u, close_raises |-> c, sessions |-> {}, closed |-> {},
      held |-> {}] :
        u \in SUBSET Channels, c \in SUBSET Channels}

Frame == UNCHANGED <<orchestration, scheduler, cron>>

\* line 38: connect() is called
CallConnect ==
    /\ conn.pc = "idle" /\ conn.calls < MaxCalls
    /\ conn' = [conn EXCEPT !.pc = "connect_api", !.fn = "connect",
                            !.outcome = "none", !.calls = @ + 1]
    /\ Frame

\* lines 53-71: the reference is set when the handshake succeeds; every
\* error is caught and leaves None
_connect_api ==
    /\ conn.pc = "connect_api"
    /\ conn' = [conn EXCEPT
          !.pc = "connect_ssh",
          !.api_connection = "api" \in conn.up,
          !.sessions = IF "api" \in conn.up THEN @ \cup {"api"} ELSE @]
    /\ Frame

\* _connect_ssh whose except branch keeps the SSH client
ConnectSshFields_KeepsShell(up) ==
    [ssh_client |-> "ssh" \in up, sftp_client |-> {"ssh", "sftp"} \subseteq up]

\* lines 84-103: both references are set when the SSH connection and the
\* SFTP channel on it are opened; an error in either leaves both None
ConnectSshFields(up) ==
    [ssh_client |-> {"ssh", "sftp"} \subseteq up,
     sftp_client |-> {"ssh", "sftp"} \subseteq up]

\* lines 83-103
_connect_ssh ==
    /\ conn.pc = "connect_ssh"
    /\ conn' = [conn EXCEPT
          !.pc = "idle", !.outcome = "returned",
          !.ssh_client = ConnectSshFields(conn.up).ssh_client,
          !.sftp_client = ConnectSshFields(conn.up).sftp_client,
          !.sessions = IF "ssh" \in conn.up
                       THEN @ \cup ({"ssh", "sftp"} \cap conn.up)
                       ELSE @]
    /\ Frame

connect == CallConnect \/ _connect_api \/ _connect_ssh

\* line 47: disconnect() is called; held are the references set at the call
CallDisconnect ==
    /\ conn.pc = "idle" /\ conn.calls < MaxCalls
    /\ conn' = [conn EXCEPT
          !.pc = "disconnect_api", !.fn = "disconnect", !.outcome = "none",
          !.calls = @ + 1, !.closed = {},
          !.held = {c \in Channels :
                      \/ c = "api" /\ conn.api_connection
                      \/ c = "ssh" /\ conn.ssh_client
                      \/ c = "sftp" /\ conn.sftp_client}]
    /\ Frame

\* lines 73-79: try/finally without except: an error of close() clears the
\* reference and then leaves _disconnect_api and, at line 48, disconnect()
_disconnect_api ==
    /\ conn.pc = "disconnect_api"
    /\ LET raises == conn.api_connection /\ "api" \in conn.close_raises
       IN conn' = [conn EXCEPT
             !.pc = IF raises THEN "idle" ELSE "disconnect_ssh",
             !.outcome = IF raises THEN "raised" ELSE @,
             !.api_connection = FALSE,
             !.closed = IF conn.api_connection THEN @ \cup {"api"} ELSE @,
             !.sessions = IF conn.api_connection /\ ~raises THEN @ \ {"api"} ELSE @]
    /\ Frame

\* lines 105-114: close the SFTP channel, then the SSH client; an error of
\* the first close() skips the second; both references are cleared
_disconnect_ssh ==
    /\ conn.pc = "disconnect_ssh"
    /\ LET sftp_raises == conn.sftp_client /\ "sftp" \in conn.close_raises
           ssh_tried == conn.ssh_client /\ ~sftp_raises
           ssh_raises == ssh_tried /\ "ssh" \in conn.close_raises
           tried == {c \in {"sftp"} : conn.sftp_client}
                    \cup {c \in {"ssh"} : ssh_tried}
           done == {c \in {"sftp"} : conn.sftp_client /\ ~sftp_raises}
                   \cup {c \in {"ssh"} : ssh_tried /\ ~ssh_raises}
       IN conn' = [conn EXCEPT
             !.pc = "idle",
             !.outcome = IF sftp_raises \/ ssh_raises THEN "raised" ELSE "returned",
             !.ssh_client = FALSE, !.sftp_client = FALSE,
             !.closed = @ \cup tried,
             !.sessions = @ \ done]
    /\ Frame

disconnect == CallDisconnect \/ _disconnect_api \/ _disconnect_ssh

LifecycleInit ==
    /\ NoOrchestration
    /\ scheduler = NewScheduler
    /\ cron = NoCall
    /\ conn \in NewConnectors

LifecycleNext == connect \/ disconnect

LifecycleSpec == LifecycleInit /\ [][LifecycleNext]_vars

\* a call of disconnect() is over
DisconnectDone == conn.pc = "idle" /\ conn.fn = "disconnect"

\* C21: when disconnect() is over, whether it returned or raised, close()
\* has been called on every channel that was open, so an error while closing
\* one channel does not keep the others from being closed; no reference is
\* left set; and a call with nothing open returns.
C21_DisconnectIndependent ==
    DisconnectDone =>
        /\ conn.held \subseteq conn.closed
        /\ ~conn.api_connection /\ ~conn.ssh_client /\ ~conn.sftp_client
        /\ conn.held = {} => conn.outcome = "returned"

\* a call of connect() is over
ConnectDone == conn.pc = "idle" /\ conn.fn = "connect"

MaxTasks == 3

\* values of MIKROTIK_MAX_PARALLEL_CONNECTIONS (utils.py line 5) explored
ConnectionLimits == {1, 2}

GatheredCalls == {"check_device_availability", "get_list"}

\* _connection_semaphore is None until _get_connection_semaphore is called
\* (utils.py lines 6, 9-13); each coroutine has its own connector; api_up
\* are the coroutines whose device accepts the API handshake
Gathers ==
    {[pc |-> "gather", call |-> k, _MAX_PARALLEL_CONNECTIONS |-> l,
      _connection_semaphore |-> "None", api_up |-> u,
      tasks |-> [i \in 1..MaxTasks |->
                    [pc |-> "created", api_connection |-> FALSE,
                     ssh_client |-> FALSE]]] :
        k \in GatheredCalls, l \in ConnectionLimits, u \in SUBSET (1..MaxTasks)}

\* the slots of the semaphore that are held
SlotsHeld ==
    IF conn._connection_semaphore = "None" THEN 0
    ELSE conn._MAX_PARALLEL_CONNECTIONS - conn._connection_semaphore

\* the coroutines whose connector has an open channel
OpenConnectors ==
    {i \in 1..MaxTasks :
        conn.tasks[i].api_connection \/ conn.tasks[i].ssh_client}

\* the coroutine runs up to `await connector.connect()` and suspends in
\* _connect_api (connector.py line 57); service.py lines 44-56 and 52-55
BeginConnect(i) ==
    /\ conn.pc = "gather"
    /\ conn.tasks[i].pc = "created"
    /\ conn' = [conn EXCEPT !.tasks[i].pc = "connecting"]
    /\ Frame

\* connect() is over; with the API channel open the command suspends in
\* _execute_api (connector.py line 190); without it the command runs over
\* SSH and the finally clause disconnects before the coroutine yields
FinishConnect(i) ==
    /\ conn.pc = "gather"
    /\ conn.tasks[i].pc = "connecting"
    /\ conn' = IF i \in conn.api_up
               THEN [conn EXCEPT !.tasks[i] =
                        [pc |-> "executing", api_connection |-> TRUE,
                         ssh_client |-> TRUE]]
               ELSE [conn EXCEPT !.tasks[i] =
                        [pc |-> "done", api_connection |-> FALSE,
                         ssh_client |-> FALSE]]
    /\ Frame

\* the command is over and the finally clause disconnects (device_manager
\* service.py lines 78-80, firewall_manager service.py lines 61-62)
FinishCommand(i) ==
    /\ conn.pc = "gather"
    /\ conn.tasks[i].pc = "executing"
    /\ conn' = [conn EXCEPT !.tasks[i] =
                  [pc |-> "done", api_connection |-> FALSE, ssh_client |-> FALSE]]
    /\ Frame

AdmissionInit ==
    /\ NoOrchestration
    /\ scheduler = NewScheduler
    /\ cron = NoCall
    /\ conn \in Gathers

AdmissionNext ==
    \E i \in 1..MaxTasks : BeginConnect(i) \/ FinishConnect(i) \/ FinishCommand(i)

AdmissionSpec == AdmissionInit /\ [][AdmissionNext]_vars

\* C23: at every moment the number of connectors that have connected and
\* not yet disconnected is at most the number of admission slots held.
C23_ConnectionsHoldSlots ==
    conn.pc = "gather" => Cardinality(OpenConnectors) <= SlotsHeld

\* C24: with more coroutines gathered than the configured capacity, the
\* number of device connections open at once never exceeds the capacity.
C24_OpenConnectionsWithinCapacity ==
    (conn.pc = "gather" /\ MaxTasks > conn._MAX_PARALLEL_CONNECTIONS) =>
        Cardinality(OpenConnectors) <= conn._MAX_PARALLEL_CONNECTIONS

(***************************************************************************)
(* Firewall address lists (firewall_manager/firewall_utils/                *)
(* mikrotik_address_list.py) on a connector after connect(), and the       *)
(* mapping of their errors to HTTP (firewall_manager/api.py).              *)
(***************************************************************************)
\* number of add_address and remove_address calls made
MaxOps == 3

\* ros_execute as one call: the outcome, the entries of the device after
\* it, and the actions that reached the device (connector.py lines 136-150)
RosCall(c, action, params, where) ==
    LET api == _execute_api(c.device, action, params, where, c.api_fails)
        sent(r) == IF r.contacted THEN <<action>> ELSE <<>>
    IN IF c.api_connection /\ AfterApi(api.outcome) = "done"
       THEN [outcome |-> api.outcome, device |-> api.device, issued |-> sent(api)]
       ELSE LET first == IF c.api_connection THEN sent(api) ELSE <<>>
            IN IF c.ssh_client
               THEN LET ssh == _execute_ssh(c.device, action, params, where, c.ssh_err)
                    IN [outcome |-> ssh.outcome, device |-> ssh.device,
                        issued |-> first \o sent(ssh)]
               ELSE [outcome |-> RosRaises("No available API or SSH connection"),
                     device |-> c.device, issued |-> first]

\* the except clauses of lines 43-48, 63-68, 101-106 and 135-140: the kind
\* of error raised for an error caught, given its text
Reraised(message) ==
    IF message = "No available API or SSH connection"
    THEN "FirewallConnectionError"
    ELSE "FirewallOperationError"

\* lines 26-33: the filter of _fetch_address_entries
AddressFilter(list_name, address) ==
    Rec({<<<<"list">>, <<list_name>>>>, <<<<"address">>, <<address>>>>})

\* lines 20-33
_fetch_address_entries(c, list_name, address) ==
    RosCall(c, "print", NoParams, AddressFilter(list_name, address))

\* add_address without the check of lines 81-84
add_address_NoCheck(c, list_name, address) ==
    LET added == RosCall(c, "add", AddressFilter(list_name, address), NoParams)
    IN [kind |-> IF added.outcome.raised THEN Reraised(added.outcome.error)
                 ELSE "none",
        device |-> added.device, issued |-> added.issued,
        looked |-> FALSE]

\* lines 71-106, called without a comment; looked: the lookup of
\* address_exists returned
add_address(c, list_name, address) ==
    LET lookup == _fetch_address_entries(c, list_name, address)
    IN IF lookup.outcome.raised
       THEN [kind |-> Reraised(lookup.outcome.error), device |-> c.device,
             issued |-> lookup.issued, looked |-> FALSE]
       ELSE IF Len(lookup.outcome.value) > 0
       THEN [kind |-> "AddressAlreadyExists", device |-> c.device,
             issued |-> lookup.issued, looked |-> TRUE]
       ELSE LET added == RosCall(c, "add", AddressFilter(list_name, address),
                                 NoParams)
            IN [kind |-> IF added.outcome.raised
                         THEN Reraised(added.outcome.error) ELSE "none",
                device |-> added.device,
                issued |-> lookup.issued \o added.issued, looked |-> TRUE]

RECURSIVE RemoveItems(_, _, _)
\* lines 128-133: the loop over the entries found, from entry i on
RemoveItems(c, items, i) ==
    IF i > Len(items)
    THEN [kind |-> "none", device |-> c.device, issued |-> <<>>]
    ELSE IF <<".id">> \notin DOMAIN items[i]
    THEN [kind |-> Reraised("KeyError"), device |-> c.device, issued |-> <<>>]
    ELSE LET removed == RosCall(c, "remove",
                                Rec({<<<<".id">>, items[i][<<".id">>]>>}), NoParams)
         IN IF removed.outcome.raised
            THEN [kind |-> Reraised(removed.outcome.error),
                  device |-> removed.device, issued |-> removed.issued]
            ELSE LET rest == RemoveItems([c EXCEPT !.device = removed.device],
                                         items, i + 1)
                 IN [kind |-> rest.kind, device |-> rest.device,
                     issued |-> removed.issued \o rest.issued]

\* lines 109-140: AddressNotFound is raised inside the try statement, whose
\* except clause catches it like every other error
remove_address(c, list_name, address) ==
    LET lookup == _fetch_address_entries(c, list_name, address)
    IN IF lookup.outcome.raised
       THEN [kind |-> Reraised(lookup.outcome.error), device |-> c.device,
             issued |-> lookup.issued, looked |-> FALSE]
       ELSE IF Len(lookup.outcome.value) = 0
       THEN [kind |-> Reraised("Address not found in list"), device |-> c.device,
             issued |-> lookup.issued, looked |-> TRUE]
       ELSE LET removed == RemoveItems(c, lookup.outcome.value, 1)
            IN [kind |-> removed.kind, device |-> removed.device,
                issued |-> lookup.issued \o removed.issued, looked |-> TRUE]

\* api.py lines 36-48: the HTTP status for a kind of error
_raise_http_error(kind) ==
    IF kind = "AddressAlreadyExists" THEN 409
    ELSE IF kind = "AddressNotFound" THEN 404
    ELSE IF kind = "FirewallConnectionError" THEN 503
    ELSE IF kind = "FirewallOperationError" THEN 500
    ELSE IF kind = "ValueError" THEN 404
    ELSE 500

\* LIST_NAMES, firewall_manager/service.py lines 16-19
LIST_NAMES == {"WhiteList", "BLAddress"}

\* the addresses given to add_address and remove_address
FirewallAddresses == {"10.0.0.5", "10.0.0.7"}

\* no call has been made yet
NoOp == [op |-> "none", list_name |-> "", address |-> "", kind |-> "none",
         issued |-> <<>>, looked |-> FALSE, before |-> <<>>]

\* connectors after connect() and the device behind each
FirewallConnectors ==
    {[pc |-> "firewall", api_connection |-> api, ssh_client |-> ssh,
      api_fails |-> f, ssh_err |-> e, device |-> d, ops |-> 0, last |-> NoOp] :
        api \in BOOLEAN, ssh \in BOOLEAN, f \in BOOLEAN, e \in BOOLEAN,
        d \in DeviceStates}

\* a call of add_address
AddAddress ==
    /\ conn.pc = "firewall" /\ conn.ops < MaxOps
    /\ \E list_name \in LIST_NAMES, address \in FirewallAddresses :
          LET r == add_address(conn, list_name, address)
          IN conn' = [conn EXCEPT
                !.device = r.device, !.ops = @ + 1,
                !.last = [op |-> "add", list_name |-> list_name,
                          address |-> address, kind |-> r.kind,
                          issued |-> r.issued, looked |-> r.looked,
                          before |-> conn.device]]
    /\ Frame

\* a call of remove_address
RemoveAddress ==
    /\ conn.pc = "firewall" /\ conn.ops < MaxOps
    /\ \E list_name \in LIST_NAMES, address \in FirewallAddresses :
          LET r == remove_address(conn, list_name, address)
          IN conn' = [conn EXCEPT
                !.device = r.device, !.ops = @ + 1,
                !.last = [op |-> "remove", list_name |-> list_name,
                          address |-> address, kind |-> r.kind,
                          issued |-> r.issued, looked |-> r.looked,
                          before |-> conn.device]]
    /\ Frame

FirewallInit ==
    /\ NoOrchestration
    /\ scheduler = NewScheduler
    /\ cron = NoCall
    /\ conn \in FirewallConnectors

FirewallNext == AddAddress \/ RemoveAddress

FirewallSpec == FirewallInit /\ [][FirewallNext]_vars

\* the entries of the device for the address in the list
EntriesFor(device, list_name, address) ==
    {i \in 1..Len(device) :
        /\ device[i][<<"list">>] = <<list_name>>
        /\ device[i][<<"address">>] = <<address>>}

\* the last call was op, for an address that was (not) in the list
LastCall(op, present) ==
    /\ conn.pc = "firewall" /\ conn.last.op = op
    /\ present <=>
          EntriesFor(conn.last.before, conn.last.list_name, conn.last.address) # {}

\* C25: add_address for an address that is already in the list fails, with
\* AddressAlreadyExists (HTTP 409) whenever the lookup was answered; no add
\* command reaches the device and the entries of the device stay as they
\* were.
C25_AddExistingConflicts ==
    LastCall("add", TRUE) =>
        /\ conn.last.kind # "none"
        /\ conn.last.looked =>
              /\ conn.last.kind = "AddressAlreadyExists"
              /\ _raise_http_error(conn.last.kind) = 409
        /\ \A i \in 1..Len(conn.last.issued) : conn.last.issued[i] # "add"
        /\ conn.device = conn.last.before

\* an address was added by one call and the next add of it was refused
\* with AddressAlreadyExists, leaving the one entry
C25_Witness ==
    /\ LastCall("add", TRUE)
    /\ conn.ops >= 2
    /\ conn.last.kind = "AddressAlreadyExists"
    /\ conn.last.address = "10.0.0.7"
    /\ Cardinality(EntriesFor(conn.device, conn.last.list_name,
                              conn.last.address)) = 1

\* C26: remove_address of an address that is in the list, when it
\* succeeds, leaves no entry for it; remove_address of an absent address,
\* when the lookup is answered, fails with AddressNotFound, which maps to a
\* status (404) other than those of FirewallOperationError and
\* FirewallConnectionError, issues no remove command and leaves the device
\* as it was.
C26_RemoveOnceThenNotFound ==
    /\ (LastCall("remove", TRUE) /\ conn.last.kind = "none") =>
          EntriesFor(conn.device, conn.last.list_name, conn.last.address) = {}
    /\ (LastCall("remove", FALSE) /\ conn.last.looked) =>
          /\ conn.last.kind = "AddressNotFound"
          /\ _raise_http_error(conn.last.kind) = 404
          /\ _raise_http_error(conn.last.kind)
                \notin {_raise_http_error("FirewallOperationError"),
                        _raise_http_error("FirewallConnectionError")}
          /\ \A i \in 1..Len(conn.last.issued) : conn.last.issued[i] # "remove"
          /\ conn.device = conn.last.before

\* C27: last_run_at of a task is written only by execute_task, never by a
\* step of the tick, and a write of last_run_at or next_run_at never replaces
\* a value by an older one, as a write that overwrites the newer value of
\* the other component would.
C27_RunTrackingSingleWriter ==
    /\ [][\A t \in DOMAIN tasks :
             tasks'[t].last_run_at # tasks[t].last_run_at => ~TickEvaluates]_vars
    /\ [][\A t \in DOMAIN tasks :
             tasks[t].last_run_at # None =>
                tasks'[t].last_run_at >= tasks[t].last_run_at]_vars
    /\ [][\A t \in DOMAIN tasks :
             tasks[t].next_run_at # None =>
                tasks'[t].next_run_at >= tasks[t].next_run_at]_vars

\* a call of start() is made in this step
StartCalled == scheduler'.starts = scheduler.starts + 1

\* C28: a scheduler never has more than one loop task that has not ended;
\* start() on a scheduler that has a loop task changes nothing of it; and a
\* tick starts only when no tick is under way and the tick before it, if
\* any, went through its whole list.
C28_TicksNeverOverlap ==
    /\ [](scheduler.loops <= 1)
    /\ [][(StartCalled /\ scheduler._task # "None") =>
            scheduler' = [scheduler EXCEPT !.starts = @ + 1]]_vars
    /\ [][(tick_due' /\ ~tick_due) =>
            /\ tick.pc = "idle"
            /\ tick.outcome \in {"none", "returned"}]_vars
    /\ [][TickStarts => (scheduler.loop = "tick" /\ scheduler.loops = 1)]_vars

\* start() was called twice, there is one loop task, and it begins its
\* second tick after the first went through its list
C28_Witness ==
    /\ scheduler.starts = 2
    /\ scheduler.loops = 1
    /\ scheduler.loop = "tick" /\ tick_due
    /\ tick.outcome = "returned"

(***************************************************************************)
(* The handler of a firewall_list_update task (worker.py lines 192-228).   *)
(* intended is the payload the creator of the task meant it to carry; the  *)
(* row the worker loads has the mapped attributes of models.Task only.     *)
(***************************************************************************)
\* payload.get(key)
Get(payload, key) == IF key \in DOMAIN payload THEN payload[key] ELSE Null

\* list_type_raw.strip().lower() for the values explored
StripLower(raw) ==
    IF raw = "WhiteList" THEN "whitelist"
    ELSE IF raw = " white " THEN "white"
    ELSE IF raw = "BLAddress" THEN "bladdress"
    ELSE raw

\* lines 110-118
_normalize_firewall_list_type(list_type_raw) ==
    IF list_type_raw \in {Null, ""}
    THEN Raises("Missing firewall list type")
    ELSE IF StripLower(list_type_raw) \in {"whitelist", "white"}
    THEN [raised |-> FALSE, error |-> "", value |-> "whitelist"]
    ELSE IF StripLower(list_type_raw) \in {"blacklist", "black", "bladdress"}
    THEN [raised |-> FALSE, error |-> "", value |-> "blacklist"]
    ELSE Raises("Unsupported firewall list type")

\* lines 213-228 on a payload that was loaded: the error raised before any
\* connection is made, if any
FirewallListUpdate(payload) ==
    IF _normalize_firewall_list_type(Get(payload, "list_type")).raised
    THEN Raises(_normalize_firewall_list_type(Get(payload, "list_type")).error)
    ELSE IF Get(payload, "operation") \in {Null, ""}
            \/ Get(payload, "address") \in {Null, ""}
    THEN Raises("Firewall list update requires operation and address")
    ELSE IF Get(payload, "operation") \notin {"add", "remove"}
    THEN Raises("Unsupported firewall operation")
    ELSE Returns

\* lines 192-193 and 213-228: the outcome of the handler for the task, and
\* whether it went on to connect to the device (lines 221-225)
FirewallHandler(task) ==
    IF _load_task_payload(task).raised
    THEN [outcome |-> _load_task_payload(task), connected |-> FALSE]
    ELSE IF FirewallListUpdate(task.payload).raised
    THEN [outcome |-> FirewallListUpdate(task.payload), connected |-> FALSE]
    ELSE [outcome |-> Returns, connected |-> TRUE]

\* the payloads meant for a firewall_list_update task
FirewallPayloads ==
    UNION {[keys -> {"", "add", "remove", "flush", "10.0.0.5", "WhiteList",
                     " white ", "BLAddress", "grey"}] :
              keys \in SUBSET {"operation", "address", "list_type"}}

\* the payload names a list type, an operation and an address the handler
\* accepts
WellFormed(payload) ==
    /\ DOMAIN payload = {"operation", "address", "list_type"}
    /\ payload["list_type"] \in {"WhiteList", " white ", "BLAddress"}
    /\ payload["operation"] \in {"add", "remove"}
    /\ payload["address"] # ""

\* the rows of firewall_list_update tasks
FirewallTasks ==
    {TaskRow("firewall_list_update", EveryMinute, TRUE, <<DeviceTarget(d)>>) :
        d \in DeviceIds}

HandlerCalls ==
    {[pc |-> "called", fn |-> "_execute_task_for_device", task |-> t,
      intended |-> p] : t \in FirewallTasks, p \in FirewallPayloads}

\* line 291: the call of the handler and what the except clause of lines
\* 295-301 records
CallHandler ==
    /\ conn.pc = "called" /\ conn.fn = "_execute_task_for_device"
    /\ LET r == FirewallHandler(conn.task)
           after == HandleOutcome(NewResult(1, 1, 1), r.outcome, 0, now)
       IN conn' = [pc |-> "done", fn |-> conn.fn, task |-> conn.task,
                   intended |-> conn.intended, outcome |-> r.outcome,
                   connected |-> r.connected, result |-> after.result]
    /\ Frame

HandlerInit ==
    /\ NoOrchestration
    /\ scheduler = NewScheduler
    /\ cron = NoCall
    /\ conn \in HandlerCalls

HandlerNext == CallHandler

HandlerSpec == HandlerInit /\ [][HandlerNext]_vars

\* the messages that describe what is wrong with the payload
PayloadMessages ==
    {"Missing firewall list type", "Unsupported firewall list type",
     "Firewall list update requires operation and address",
     "Unsupported firewall operation"}

\* C29: for a firewall_list_update task whose payload is malformed, the
\* handler fails before connecting to the device, and the result is failed
\* with a message that describes what is wrong with the payload.
C29_MalformedPayloadFails ==
    (/\ conn.pc = "done" /\ conn.fn = "_execute_task_for_device"
     /\ ~WellFormed(conn.intended)) =>
        /\ conn.outcome.raised
        /\ ~conn.connected
        /\ conn.result.status = "failed"
        /\ conn.result.error_message \in PayloadMessages

\* C30: within one execution the handler is called at most once for a
\* device, only for the resolved devices of the execution, and exactly once
\* for each of them when execute_task has ended, whether the call returned
\* or raised.
C30_NoRetries ==
    \A e \in ExecutionIds : \A d \in DeviceIds :
        /\ Cardinality(HandlerCallsOf(e, d)) <= 1
        /\ HandlerCallsOf(e, d) # {} => d \in DevicesOf(e)
        /\ (Ended(e) /\ d \in DevicesOf(e)) =>
              Cardinality(HandlerCallsOf(e, d)) = 1

\* the handler raised for a device in one execution, which ended, and a
\* later execution of the same task called the handler for that device
\* again, once
C30_Witness ==
    \E e1, e2 \in ExecutionIds : \E d \in DeviceIds :
        /\ e1 < e2 /\ Ended(e1) /\ Ended(e2)
        /\ executions[e1].task_id = executions[e2].task_id
        /\ \E c \in HandlerCallsOf(e1, d) : c[4]
        /\ Cardinality(HandlerCallsOf(e1, d)) = 1
        /\ Cardinality(HandlerCallsOf(e2, d)) = 1

(***************************************************************************)
(* The device handlers that need the shell channel: _execute_script_task,  *)
(* _execute_reboot_task and _execute_reset_task (worker.py lines 125-189)  *)
(* and BackupService.run_backup (backup_manager/service.py lines 35-84).   *)
(* A run is one call of a handler on a fresh connector: connect(), the     *)
(* body of the try statement, disconnect() in its finally clause.  The     *)
(* device decides which commands write to stderr (`errs`).                 *)
(***************************************************************************)
\* script: an inline script, script_name: a script stored on the device,
\* no_script: a payload with neither; backup_other: a backup_type that is
\* neither "backup" nor "export"
RunKinds ==
    {"script", "script_name", "no_script", "reboot", "reset", "backup",
     "backup_other"}

\* the commands a run may issue: the script's add and remove, the command
\* proper (run) and the download of the backup file (get)
RunCommands == {"add", "run", "remove", "get"}

\* what becomes of the body of a handler: the commands it issued in order,
\* whether the transient script was created, and how the body ended
Body(issued, created, outcome) ==
    [issued |-> issued, created |-> created, outcome |-> outcome]

\* connector.py lines 236-240 (and download_file, lines 275-278): the
\* command is sent; a command that writes to stderr raises RuntimeError
run_ssh_command(cmd, errs) == IF cmd \in errs THEN Raises(cmd) ELSE Returns

\* worker.py lines 132-154, the try statement of _execute_script_task
_execute_script_task(kind, c) ==
    IF ~c.ssh_client
    THEN Body(<<>>, FALSE, Raises("SSH connection required for script execution"))
    ELSE IF kind = "script_name"
    THEN Body(<<"run">>, FALSE, run_ssh_command("run", c.errs))
    ELSE IF run_ssh_command("add", c.errs).raised
    THEN Body(<<"add">>, FALSE, run_ssh_command("add", c.errs))
    ELSE \* lines 147-153: created is True; the removal of the finally clause
         \* is a run_ssh_command too, and its error replaces the outcome
         LET ran == run_ssh_command("run", c.errs)
             removed == run_ssh_command("remove", c.errs)
         IN Body(<<"add", "run", "remove">>, TRUE,
                 IF removed.raised THEN removed ELSE ran)

\* worker.py lines 161-165
_execute_reboot_task(c) ==
    IF ~c.ssh_client
    THEN Body(<<>>, FALSE, Raises("SSH connection required for reboot"))
    ELSE Body(<<"run">>, FALSE, run_ssh_command("run", c.errs))

\* worker.py lines 172-187
_execute_reset_task(c) ==
    IF ~c.ssh_client
    THEN Body(<<>>, FALSE, Raises("SSH connection required for reset"))
    ELSE Body(<<"run">>, FALSE, run_ssh_command("run", c.errs))

\* backup_manager/service.py lines 58-82
run_backup(kind, c) ==
    IF ~c.ssh_client \/ ~c.sftp_client
    THEN Body(<<>>, FALSE, Raises("SSH/SFTP connection required for backup"))
    ELSE IF kind = "backup_other"
    THEN Body(<<>>, FALSE, Raises("Unsupported backup type"))
    ELSE IF run_ssh_command("run", c.errs).raised
    THEN Body(<<"run">>, FALSE, run_ssh_command("run", c.errs))
    ELSE Body(<<"run", "get">>, FALSE, run_ssh_command("get", c.errs))

\* the body of the handler of a run
BodyOf(c) ==
    CASE c.kind \in {"script", "script_name"} -> _execute_script_task(c.kind, c)
      [] c.kind = "reboot" -> _execute_reboot_task(c)
      [] c.kind = "reset" -> _execute_reset_task(c)
      [] OTHER -> run_backup(c.kind, c)

\* a run that has not begun: a fresh connector, the kind of the handler and
\* the behaviour of the device
NewRuns ==
    {[pc |-> n.pc, fn |-> n.fn, outcome |-> n.outcome, calls |-> n.calls,
      api_connection |-> n.api_connection, ssh_client |-> n.ssh_client,
      sftp_client |-> n.sftp_client, up |-> n.up,
      close_raises |-> n.close_raises, sessions |-> n.sessions,
      closed |-> n.closed, held |-> n.held,
      kind |-> k, errs |-> e, issued |-> <<>>, created |-> FALSE,
      body |-> Returns, result |-> Returns] :
        n \in NewConnectors, k \in RunKinds, e \in SUBSET RunCommands}

\* worker.py lines 128-129: the payload names no script, the handler raises
\* before it connects
RejectRun ==
    /\ conn.pc = "idle" /\ conn.fn = "none" /\ conn.kind = "no_script"
    /\ conn' = [conn EXCEPT
          !.pc = "done",
          !.result = Raises("Missing script or script_name for script execution")]
    /\ Frame

\* worker.py lines 131, 160, 171; service.py line 56
StartRun ==
    /\ conn.fn = "none" /\ conn.kind # "no_script"
    /\ CallConnect

\* the statements of the try clause, after connect() has returned
RunBody ==
    /\ conn.pc = "idle" /\ conn.fn = "connect"
    /\ conn' = [conn EXCEPT
          !.fn = "body", !.issued = BodyOf(conn).issued,
          !.created = BodyOf(conn).created, !.body = BodyOf(conn).outcome]
    /\ Frame

\* worker.py lines 155-156, 166-167, 188-189; service.py lines 83-84
RunFinally ==
    /\ conn.fn = "body"
    /\ CallDisconnect

\* the handler is left: an error of disconnect() replaces the outcome of
\* the body, else the body's error goes on or its value is returned
EndRun ==
    /\ conn.pc = "idle" /\ conn.fn = "disconnect"
    /\ conn' = [conn EXCEPT
          !.pc = "done",
          !.result = IF conn.outcome = "raised" THEN Raises("close") ELSE conn.body]
    /\ Frame

RunInit ==
    /\ NoOrchestration
    /\ scheduler = NewScheduler
    /\ cron = NoCall
    /\ conn \in NewRuns

RunNext ==
    \/ RejectRun
    \/ StartRun
    \/ _connect_api
    \/ _connect_ssh
    \/ RunBody
    \/ RunFinally
    \/ _disconnect_api
    \/ _disconnect_ssh
    \/ EndRun

RunSpec == RunInit /\ [][RunNext]_vars

\* the run is over and its handler had connected
RunDone == conn.pc = "done" /\ conn.fn = "disconnect"

\* the handlers that require the shell channel
NeedsShell == {"script", "script_name", "reboot", "reset", "backup"}

\* the error each handler raises when its channel is missing
RequiredMessage(kind) ==
    CASE kind \in {"script", "script_name"} ->
             "SSH connection required for script execution"
      [] kind = "reboot" -> "SSH connection required for reboot"
      [] kind = "reset" -> "SSH connection required for reset"
      [] OTHER -> "SSH/SFTP connection required for backup"

\* C31: when the shell channel (for a backup, the shell or the SFTP channel)
\* is not available after connect(), the script, reboot, reset and backup
\* handlers end by raising the error that names the missing channel, have
\* issued no command, and have called disconnect().
C31_FailFastWithoutShell ==
    (RunDone /\ conn.kind \in NeedsShell /\ ~({"ssh", "sftp"} \subseteq conn.up)) =>
        /\ conn.result = Raises(RequiredMessage(conn.kind))
        /\ conn.issued = <<>>
        /\ conn.calls = 2

\* C32: for an inline script, the removal of the transient script is issued
\* exactly when the script was created, on every way out of the run; a
\* removal that fails does not make a run that succeeded end in an error;
\* and a script named in the payload is run without an add or a remove.
C32_TransientScriptRemoved ==
    /\ (RunDone /\ conn.kind = "script") =>
          /\ conn.created <=> (\E i \in 1..Len(conn.issued) : conn.issued[i] = "remove")
          /\ (conn.created /\ "run" \notin conn.errs) => ~conn.body.raised
    /\ (RunDone /\ conn.kind = "script_name") =>
          \A i \in 1..Len(conn.issued) : conn.issued[i] = "run"

\* C33: when a handler has ended, by returning or by raising, its connector
\* holds no reference to a channel and no API, SSH or SFTP session that it
\* opened is still open.
C33_NoChannelLeftOpen ==
    conn.pc = "done" =>
        /\ ~conn.api_connection /\ ~conn.ssh_client /\ ~conn.sftp_client
        /\ conn.sessions = {}

(***************************************************************************)
(* The schedule of one task at the resolution of seconds: the tick         *)
(* (dispatch_scheduled_tasks, worker.py lines 317-339) and the write that  *)
(* ends an execution (execute_task, lines 307-312), on a clock that moves  *)
(* by parts of a minute.  Ticks follow one another at any distance; an     *)
(* execution enqueued by a tick completes at any later time.  tick.log is  *)
(* the set of times `now` at which the task was dispatched, tick.boot the  *)
(* `now` of the tick that bootstrapped the task.                           *)
(***************************************************************************)
\* number of clock advances
MaxTicks == 3

\* the seconds between two readings of the clock
SecondSteps == {20, 40}

MinuteStart(dt) == dt - (dt % 60)
SameMinute(a, b) == MinuteStart(a) = MinuteStart(b)

\* tables of one enabled task, not yet bootstrapped or due at the start
ScheduledTables ==
    {<<[TaskRow("check_availability", e, TRUE, <<DeviceTarget(3)>>)
            EXCEPT !.next_run_at = n]>> :
        e \in {EveryMinute, EvenMinutes}, n \in {None, StartTime}}

NoTick ==
    [pc |-> "idle", now |-> None, next_run |-> None, log |-> {}, boot |-> None]

\* the clock moves on
SecondsPass ==
    /\ clock_steps < MaxTicks
    /\ \E d \in SecondSteps : now' = now + d
    /\ clock_steps' = clock_steps + 1
    /\ UNCHANGED <<manual_count, tasks, executions, results, queue, workers,
                   tick, tick_due, calls, handler_calls>>
    /\ UNCHANGED others

\* lines 319-322: the tick takes the time and loads the task
BeginTick ==
    /\ tick.pc = "idle"
    /\ tick' = [tick EXCEPT !.pc = "loop", !.now = now,
                            !.next_run = tasks[1].next_run_at]
    /\ UNCHANGED <<now, clock_steps, manual_count, tasks, executions, results,
                   queue, workers, tick_due, calls, handler_calls>>
    /\ UNCHANGED others

\* DispatchWrite that leaves next_run_at as it was
DispatchWrite_KeepsNextRun(task, at) == [task EXCEPT !.last_run_at = at]

\* lines 335-336: the row of a task dispatched at `at`
DispatchWrite(task, at) ==
    [task EXCEPT !.last_run_at = at,
                 !.next_run_at = compute_next_run(at, task.schedule_expression,
                                                  LookaheadMinutes)]

\* lines 323-339: the iteration for the task, and the end of the tick
EvaluateTask ==
    /\ tick.pc = "loop"
    /\ LET task == tasks[1]
       IN IF tick.next_run = None
          THEN /\ tasks' = [tasks EXCEPT ![1].next_run_at =
                     compute_next_run(tick.now, task.schedule_expression,
                                      LookaheadMinutes)]
               /\ tick' = [tick EXCEPT !.pc = "idle", !.boot = tick.now]
               /\ UNCHANGED queue
          ELSE IF TaskIsDue(tick.next_run, tick.now, task.schedule_expression)
          THEN /\ queue' = Append(queue, [task_id |-> 1, triggered_by |-> "schedule"])
               /\ tasks' = [tasks EXCEPT ![1] = DispatchWrite(task, tick.now)]
               /\ tick' = [tick EXCEPT !.pc = "idle", !.log = @ \cup {tick.now}]
          ELSE /\ tick' = [tick EXCEPT !.pc = "idle"]
               /\ UNCHANGED <<tasks, queue>>
    /\ UNCHANGED <<now, clock_steps, manual_count, executions, results, workers,
                   tick_due, calls, handler_calls>>
    /\ UNCHANGED others

\* lines 309-312: an execution that was enqueued ends and rewrites
\* last_run_at and next_run_at from the time of its end
CompleteExecution ==
    /\ queue # <<>>
    /\ queue' = Tail(queue)
    /\ tasks' = [tasks EXCEPT
          ![1].last_run_at = now,
          ![1].next_run_at = compute_next_run(now, tasks[1].schedule_expression,
                                              LookaheadMinutes)]
    /\ UNCHANGED <<now, clock_steps, manual_count, executions, results, workers,
                   tick, tick_due, calls, handler_calls>>
    /\ UNCHANGED others

DispatchInit ==
    /\ now = StartTime
    /\ clock_steps = 0
    /\ manual_count = 0
    /\ tasks \in ScheduledTables
    /\ executions = <<>>
    /\ results = <<>>
    /\ queue = <<>>
    /\ workers = [w \in Workers |-> IdleWorker]
    /\ tick = NoTick
    /\ tick_due = FALSE
    /\ calls = <<>>
    /\ handler_calls = {}
    /\ scheduler = NewScheduler
    /\ cron = NoCall
    /\ conn = NoConnector

DispatchNext == SecondsPass \/ BeginTick \/ EvaluateTask \/ CompleteExecution

DispatchSpec == DispatchInit /\ [][DispatchNext]_vars

\* the tick dispatches the task in this step
Dispatches == tick.pc = "loop" /\ tick'.log # tick.log

\* C34: the task is dispatched at most once per calendar minute: a dispatch
\* at `now` is the first in its minute and leaves next_run_at at least one
\* minute after `now`, and whatever is written later, by a tick or by the
\* end of an execution, next_run_at stays later than every time inside the
\* minute of a dispatch that was made.
C34_OncePerMinute ==
    /\ [][Dispatches =>
            /\ \A d \in tick.log : ~SameMinute(d, tick.now)
            /\ tasks'[1].next_run_at >= tick.now + 60]_vars
    /\ [](\A d \in tick.log : tasks[1].next_run_at >= MinuteStart(d) + 60)

\* the task was dispatched, the execution ended and rewrote the row, and a
\* later tick in the minute of the dispatch is about to evaluate the task
C34_Witness ==
    /\ tick.pc = "loop"
    /\ \E d \in tick.log : SameMinute(d, tick.now) /\ d < tick.now
    /\ tasks[1].last_run_at \notin tick.log
    /\ queue = <<>>

\* C35: once the task has been bootstrapped (in an earlier minute), a tick
\* whose `now` lies in a minute that matches the expression dispatches the
\* task, unless the task was already dispatched in that minute.
C35_NoDueRunSkipped ==
    [][(/\ tick.pc = "loop" /\ tick'.pc = "idle"
        /\ tick.next_run # None
        /\ tick.boot # None => ~SameMinute(tick.boot, tick.now)
        /\ cron_matches(tick.now, tasks[1].schedule_expression)
        /\ \A d \in tick.log : ~SameMinute(d, tick.now))
       => tick'.log # tick.log]_vars

\* a loop task created by a start() that followed a completed stop(), with
\* no stop() called since
Restarted ==
    /\ scheduler.stopped
    /\ scheduler.stop = "returned"
    /\ scheduler.loop = "created"

\* C36: a scheduler that was stopped can be started again: the loop task
\* created by a start() after a completed stop() runs a tick when it gets
\* to run, unless stop() has been called again, so the scheduler is running
\* as it was after its first start().
C36_RestartTicksAgain ==
    [][(Restarted /\ scheduler'.loop # scheduler.loop) =>
            scheduler'.loop = "tick"]_vars

(***************************************************************************)
(* Two add_address calls for the same device, list and address that run    *)
(* side by side (two requests of firewall_manager/api.py on one event      *)
(* loop, each with a connector of its own): a call is suspended while its  *)
(* ros_execute waits for the device (connector.py line 190), between the   *)
(* lookup of address_exists and the add.                                   *)
(***************************************************************************)
Callers == {1, 2}

\* both connectors after connect(), the device behind them, and the list
\* and address both calls are made with
ConcurrentAdds ==
    {[pc |-> "adding", api_connection |-> c.api_connection,
      ssh_client |-> c.ssh_client, api_fails |-> c.api_fails,
      ssh_err |-> c.ssh_err, device |-> c.device, before |-> c.device,
      list_name |-> l, address |-> a,
      calls |-> [i \in Callers |-> [pc |-> "start", kind |-> "none"]]] :
        c \in FirewallConnectors, l \in LIST_NAMES, a \in FirewallAddresses}

\* mikrotik_address_list.py lines 51-68 and 81-84: the lookup of call i and
\* what the call goes on to
address_exists(i) ==
    /\ conn.pc = "adding" /\ conn.calls[i].pc = "start"
    /\ LET lookup == _fetch_address_entries(conn, conn.list_name, conn.address)
       IN conn' = [conn EXCEPT !.calls[i] =
             IF lookup.outcome.raised
             THEN [pc |-> "done", kind |-> Reraised(lookup.outcome.error)]
             ELSE IF Len(lookup.outcome.value) > 0
             THEN [pc |-> "done", kind |-> "AddressAlreadyExists"]
             ELSE [pc |-> "add", kind |-> "none"]]
    /\ Frame

\* lines 86-106: the add of call i
AddEntry(i) ==
    /\ conn.pc = "adding" /\ conn.calls[i].pc = "add"
    /\ LET added == RosCall(conn, "add",
                            AddressFilter(conn.list_name, conn.address), NoParams)
       IN conn' = [conn EXCEPT
             !.device = added.device,
             !.calls[i] = [pc |-> "done",
                           kind |-> IF added.outcome.raised
                                    THEN Reraised(added.outcome.error)
                                    ELSE "none"]]
    /\ Frame

ConcurrentInit ==
    /\ NoOrchestration
    /\ scheduler = NewScheduler
    /\ cron = NoCall
    /\ conn \in ConcurrentAdds

ConcurrentNext == \E i \in Callers : address_exists(i) \/ AddEntry(i)

ConcurrentSpec == ConcurrentInit /\ [][ConcurrentNext]_vars

\* C37: when two add_address calls for the same list and address, neither
\* of which was in the list, have ended on a device whose API channel
\* answers, the list holds exactly one entry for the address, one call has
\* succeeded and the other has failed with AddressAlreadyExists.
C37_ConcurrentAddsOnce ==
    (/\ conn.pc = "adding"
     /\ \A i \in Callers : conn.calls[i].pc = "done"
     /\ conn.api_connection /\ ~conn.api_fails
     /\ EntriesFor(conn.before, conn.list_name, conn.address) = {}) =>
        /\ Cardinality(EntriesFor(conn.device, conn.list_name, conn.address)) = 1
        /\ {conn.calls[i].kind : i \in Callers} = {"none", "AddressAlreadyExists"}

\* C38: one call of ros_execute with action add leaves at most one entry
\* more on the device than there was, also when the API channel reports an
\* error for a command that the device has applied and the call goes on to
\* the SSH channel.
C38_AddCreatesAtMostOne ==
    (RosDone /\ conn.action = "add") => Len(conn.device) <= Len(conn.before) + 1

\* C39: a call of ros_execute with action add or remove that was served by
\* the SSH channel, on a device that writes an error to stderr for the
\* command, raises; it does not return an empty result.
C39_ShellErrorFails ==
    (/\ RosDone /\ conn.action \in {"add", "remove"}
     /\ conn.contacted # <<>> /\ conn.contacted[Len(conn.contacted)] = "ssh"
     /\ conn.ssh_err) =>
        conn.outcome.raised

(***************************************************************************)
(* Executions on a device that cannot be served: device 3 stands for a     *)
(* device id that a target resolves to and that has no record or           *)
(* credentials (worker.py lines 91-96; device_manager/service.py lines     *)
(* 18-25) or answers on no channel.  Tasks of every kind are run on it by  *)
(* manual triggers.                                                        *)
(***************************************************************************)
UnreachableDevices == {3}

\* one task of each kind on the device, with an expression of five fields
\* or of four
UnreachableTables ==
    {<<TaskRow(k, e, TRUE, <<DeviceTarget(3)>>), CheckGroup>> :
        k \in SupportedTaskTypes, e \in {EveryMinute, FourFields}}

UnreachableInit ==
    /\ now = StartTime
    /\ clock_steps = 0
    /\ manual_count = 0
    /\ tasks \in UnreachableTables
    /\ executions = <<>>
    /\ results = <<>>
    /\ queue = <<>>
    /\ workers = [w \in Workers |-> IdleWorker]
    /\ tick = IdleTick
    /\ tick_due = FALSE
    /\ calls = <<>>
    /\ handler_calls = {}
    /\ scheduler = NewScheduler
    /\ cron = NoCall
    /\ conn = NoConnector

UnreachableNext ==
    \/ ManualTrigger
    \/ \E w \in Workers : execute_task(w)

UnreachableSpec == UnreachableInit /\ [][UnreachableNext]_vars

\* C40: when execute_task has ended, for a task of any kind, every result
\* of a device that has no record or cannot be reached is failed, and the
\* execution such a result belongs to is failed.
C40_UnreachableDeviceFails ==
    \A e \in ExecutionIds : Ended(e) =>
        \A i \in RowsOf(e) : results[i].device_id \in UnreachableDevices =>
            /\ results[i].status = "failed"
            /\ executions[e].status = "failed"
====
